---- MODULE Spec2Model ----
(***************************************************************************)
(* A model of tsaybot's Domain (src/src/bot.py): the Session Store, the    *)
(* scheduled events of the platform, the announcement channel, and the     *)
(* coroutines schedule_event and announce (the reminder pass), each cut at  *)
(* its await points.                                                       *)
(***************************************************************************)
EXTENDS Integers, Sequences, FiniteSets, Bags, TLC

(***************************************************************************)
(* Bounds of the exploration.                                              *)
(***************************************************************************)
\* the last clock tick the exploration reaches
MaxNow == 2
\* the number of films scheduled, and so of scheduled events ever created
MaxEvents == 2
\* the number of schedule_event coroutines in flight at once
MaxCalls == 1
\* the last date (day number) an edit moves an event to
MaxDate == 2
\* the number of handle_updated_event coroutines in flight at once
MaxUpdates == 1
\* the last day on which schedule_event is started when its date is examined
MaxStartDay == 13
\* the number of words of a control message
MaxWords == 2
\* the number of pieces (links and other text) of a ballot message
MaxPieces == 3
\* the number of answers of a poll, and the votes an answer may have
MaxAnswers == 3
MaxVotes == 2
\* the last clock tick the reminder timer is followed to
MaxClock == 4
\* the number of ballots posted
MaxBallots == 1

(***************************************************************************)
(* The values of the program.                                              *)
(***************************************************************************)
\* clock ticks in a day: timedelta.days counts whole days, rounding down
TicksPerDay == 2

\* the configured domains, by name
Domains == {"tsay"}

\* the films the club schedules, in this order: the title of each MovieInfo
Films == <<"Arrival", "Alien", "Akira", "Amadeus">>

\* Python's None
None == [none |-> TRUE]

\* Domain.event_channel, and another voice channel of the same guild
event_channel(d) == [voice |-> d]
OtherChannel(d) == [voice |-> "lounge"]

\* Domain.member_role
member_role(d) == [role |-> d]

\* ScheduledEvent ids the platform hands out
EventIds == 1..MaxEvents

VARIABLES
    now,        \* the clock, in ticks
    events,     \* the guild's scheduled-event cache: id -> event or None
    nextId,     \* the id the next created event gets
    store,      \* events.json of each domain: a list of dicts
    sent,       \* the messages the latest step posted, each with its channel
    pass,       \* each domain's announce() coroutine
    calls,      \* the schedule_event coroutines in flight (a bag)
    asked,      \* the number of schedule_event calls made so far
    raised,     \* the coroutines the latest step ended with an exception,
                \* as <<name, domain>>
    cfg,        \* Bot.__domains_cfg: the configured domains, in order
    domains,    \* Bot.domains: guild id -> Domain
    reminder_timer, \* Bot.reminder_timer: None or the Timer
    ballots,    \* the messages of the vote channels: message id -> message
    updates     \* the handle_updated_event coroutines in flight (a bag)

\* the state of the Bot around its Domains
botVars == <<cfg, domains, reminder_timer, ballots, updates>>

vars == <<now, events, nextId, store, sent, pass, calls, asked, raised,
          cfg, domains, reminder_timer, ballots, updates>>

(***************************************************************************)
(* Session and the Session Store.                                          *)
(***************************************************************************)
Session(id, title, reminder_count) ==
    [id |-> id, title |-> title, reminder_count |-> reminder_count]

todict(session) ==
    [id |-> session.id, film_title |-> session.title,
     reminder_count |-> session.reminder_count]

\* fromdict giving every Session the count of a new one
fromdict_NewCount(dict) == Session(dict.id, dict.film_title, 2)

fromdict(dict) == Session(dict.id, dict.film_title, dict.reminder_count)

IsTruthy(x) == x # None

read_sessions(d) == [i \in 1..Len(store[d]) |-> fromdict(store[d][i])]

\* the contents write_sessions leaves in events.json
write_sessions(sessions) ==
    LET truthy == SelectSeq(sessions, IsTruthy)
    IN  [i \in 1..Len(truthy) |-> todict(truthy[i])]

(***************************************************************************)
(* Time.                                                                   *)
(***************************************************************************)
\* datetime.date.today(), as a day number; day 0 is a Monday
Today == now \div TicksPerDay

weekday(date) == date % 7

\* timedelta.days of start_time - datetime.now()
DaysRemaining(start_time, at) == (start_time - at) \div TicksPerDay

\* 22:00 on the given date
At22(date) == date * TicksPerDay + (TicksPerDay - 1)

\* ScheduleStart with the parentheses of line 232 dropped
ScheduleStart_Flat == At22(Today + (14 - weekday(Today) - 2))

\* the start time schedule_event asks for
ScheduleStart == At22(Today + (14 - (weekday(Today) - 2)))

(***************************************************************************)
(* The reminder pass: announce -> announce_events -> announce_event.       *)
(***************************************************************************)
get_scheduled_event(d, id) ==
    IF id \in EventIds /\ events[id] # None /\ events[id].guild = d
    THEN events[id] ELSE None

DayOfAnnouncement(session) == [text |-> "tonight", title |-> session.title]

\* the day number of an instant, and strftime('%A') of it
DateOf(time) == time \div TicksPerDay

TwoDayAnnouncement(session, start_time) ==
    [text |-> "meeting_on", weekday |-> weekday(DateOf(start_time)),
     title |-> session.title]

\* announce_event with the two-day branch forgetting to count the reminder down
announce_event_KeepsCount(d, session) ==
    LET event == get_scheduled_event(d, session.id) IN
    IF event = None THEN <<None, None>>
    ELSE IF event.status # "scheduled" THEN <<None, None>>
    ELSE IF event.channel = None \/ event.channel # event_channel(d)
    THEN <<None, None>>
    ELSE LET days == DaysRemaining(event.start_time, now) IN
         IF days < 0 THEN <<None, None>>
         ELSE IF days = 0 THEN <<None, DayOfAnnouncement(session)>>
         ELSE IF days <= 2 /\ session.reminder_count >= 2
         THEN <<session, TwoDayAnnouncement(session, event.start_time)>>
         ELSE <<session, None>>

\* announce_event with the day-of branch keeping the session
announce_event_DayOfKeeps(d, session) ==
    LET event == get_scheduled_event(d, session.id) IN
    IF event = None THEN <<None, None>>
    ELSE IF event.status # "scheduled" THEN <<None, None>>
    ELSE IF event.channel = None \/ event.channel # event_channel(d)
    THEN <<None, None>>
    ELSE LET days == DaysRemaining(event.start_time, now) IN
         IF days < 0 THEN <<None, None>>
         ELSE IF days = 0 THEN <<session, DayOfAnnouncement(session)>>
         ELSE IF days <= 2 /\ session.reminder_count >= 2
         THEN <<[session EXCEPT !.reminder_count = 1],
                TwoDayAnnouncement(session, event.start_time)>>
         ELSE <<session, None>>

\* announce_event with the two-day branch not looking at reminder_count
announce_event_RemindsAgain(d, session) ==
    LET event == get_scheduled_event(d, session.id) IN
    IF event = None THEN <<None, None>>
    ELSE IF event.status # "scheduled" THEN <<None, None>>
    ELSE IF event.channel = None \/ event.channel # event_channel(d)
    THEN <<None, None>>
    ELSE LET days == DaysRemaining(event.start_time, now) IN
         IF days < 0 THEN <<None, None>>
         ELSE IF days = 0 THEN <<None, DayOfAnnouncement(session)>>
         ELSE IF days <= 2
         THEN <<[session EXCEPT !.reminder_count = 1],
                TwoDayAnnouncement(session, event.start_time)>>
         ELSE <<session, None>>

\* announce_event without the test for a start time that has passed
announce_event_KeepsStale(d, session) ==
    LET event == get_scheduled_event(d, session.id) IN
    IF event = None THEN <<None, None>>
    ELSE IF event.status # "scheduled" THEN <<None, None>>
    ELSE IF event.channel = None \/ event.channel # event_channel(d)
    THEN <<None, None>>
    ELSE LET days == DaysRemaining(event.start_time, now) IN
         IF days = 0 THEN <<None, DayOfAnnouncement(session)>>
         ELSE IF days <= 2 /\ session.reminder_count >= 2
         THEN <<[session EXCEPT !.reminder_count = 1],
                TwoDayAnnouncement(session, event.start_time)>>
         ELSE <<session, None>>

\* what announce_event returns for a session: <<Session|None, str|None>>
announce_event(d, session) ==
    LET event == get_scheduled_event(d, session.id) IN
    IF event = None THEN <<None, None>>
    ELSE IF event.status # "scheduled" THEN <<None, None>>
    ELSE IF event.channel = None \/ event.channel # event_channel(d)
    THEN <<None, None>>
    ELSE LET days == DaysRemaining(event.start_time, now) IN
         IF days < 0 THEN <<None, None>>
         ELSE IF days = 0 THEN <<None, DayOfAnnouncement(session)>>
         ELSE IF days <= 2 /\ session.reminder_count >= 2
         THEN <<[session EXCEPT !.reminder_count = 1],
                TwoDayAnnouncement(session, event.start_time)>>
         ELSE <<session, None>>

IdlePass == [pc |-> "idle", sessions |-> <<>>, tasks |-> <<>>, announcements |-> <<>>]

\* Domain.announce_channel
announce_channel(d) == [text |-> d]

\* channel.send(message) succeeded in this step
Post(d, message) == <<[to |-> announce_channel(d), message |-> message]>>

\* a step that posts nothing and raises nothing
Quiet == sent' = <<>> /\ raised' = {}

\* announce_events, line 272: read the store; the tasks are created
PassStart(d) ==
    /\ pass[d].pc = "idle"
    /\ pass' = [pass EXCEPT ![d] =
                  [pc |-> "eval", sessions |-> read_sessions(d), tasks |-> <<>>,
                   announcements |-> <<>>]]
    /\ UNCHANGED <<now, events, nextId, store, calls, asked, botVars>>
    /\ Quiet

\* PassEval persisting what the tasks kept as soon as they are done
PassEval_Persists(d) ==
    /\ pass[d].pc = "eval"
    /\ pass' = [pass EXCEPT ![d].pc = "gather",
                            ![d].tasks = [i \in 1..Len(pass[d].sessions) |->
                                            announce_event(d, pass[d].sessions[i])]]
    /\ store' = [store EXCEPT ![d] =
                   write_sessions([i \in 1..Len(pass[d].sessions) |->
                                     announce_event(d, pass[d].sessions[i])[1]])]
    /\ UNCHANGED <<now, events, nextId, calls, asked, botVars>>
    /\ Quiet

\* the announce_event tasks run, one after the other, in the order of the sessions
PassEval(d) ==
    /\ pass[d].pc = "eval"
    /\ pass' = [pass EXCEPT ![d].pc = "gather",
                            ![d].tasks = [i \in 1..Len(pass[d].sessions) |->
                                            announce_event(d, pass[d].sessions[i])]]
    /\ UNCHANGED <<now, events, nextId, store, calls, asked, botVars>>
    /\ Quiet

First(pair) == pair[1]
Second(pair) == pair[2]
HasFirst(pair) == IsTruthy(pair[1])
HasSecond(pair) == IsTruthy(pair[2])

\* PassWrite with one events.json for all Domains, data_dir not extended by the name
PassWrite_SharedFile(d) ==
    /\ pass[d].pc = "gather"
    /\ store' = [e \in DOMAIN store |->
                   LET kept == SelectSeq(pass[d].tasks, HasFirst)
                   IN  write_sessions([i \in 1..Len(kept) |-> First(kept[i])])]
    /\ pass' = [pass EXCEPT ![d].pc = "send",
                            ![d].sessions = <<>>,
                            ![d].tasks = <<>>,
                            ![d].announcements =
                                LET said == SelectSeq(pass[d].tasks, HasSecond)
                                IN  [i \in 1..Len(said) |-> Second(said[i])]]
    /\ UNCHANGED <<now, events, nextId, calls, asked, botVars>>
    /\ Quiet

\* announce_events, lines 279-282: all tasks are done; rewrite the store and return
PassWrite(d) ==
    /\ pass[d].pc = "gather"
    /\ store' = [store EXCEPT ![d] =
                   LET kept == SelectSeq(pass[d].tasks, HasFirst)
                   IN  write_sessions([i \in 1..Len(kept) |-> First(kept[i])])]
    /\ pass' = [pass EXCEPT ![d].pc = "send",
                            ![d].sessions = <<>>,
                            ![d].tasks = <<>>,
                            ![d].announcements =
                                LET said == SelectSeq(pass[d].tasks, HasSecond)
                                IN  [i \in 1..Len(said) |-> Second(said[i])]]
    /\ UNCHANGED <<now, events, nextId, calls, asked, botVars>>
    /\ Quiet

\* AnnounceMessage without the case of a single announcement
AnnounceMessage_AlwaysBulleted(d, announcements) ==
    [kind |-> "bulleted", mentions |-> <<member_role(d)>>, items |-> announcements]

\* the message announce sends for a non-empty list of announcements
AnnounceMessage(d, announcements) ==
    IF Len(announcements) = 1
    THEN [kind |-> "plain", mentions |-> <<member_role(d)>>, items |-> announcements]
    ELSE [kind |-> "bulleted", mentions |-> <<member_role(d)>>, items |-> announcements]

\* announce, lines 260-269: nothing to announce, or the send succeeds
PassSend(d) ==
    /\ pass[d].pc = "send"
    /\ sent' = IF pass[d].announcements = <<>> THEN <<>>
               ELSE Post(d, AnnounceMessage(d, pass[d].announcements))
    /\ pass' = [pass EXCEPT ![d] = IdlePass]
    /\ UNCHANGED <<now, events, nextId, store, calls, asked, botVars>>
    /\ raised' = {}

\* announce, lines 261 and 265: announce_channel.send raises
PassSendFail(d) ==
    /\ pass[d].pc = "send"
    /\ pass[d].announcements # <<>>
    /\ pass' = [pass EXCEPT ![d] = IdlePass]
    /\ raised' = {<<"announce", d>>}
    /\ UNCHANGED <<now, events, nextId, store, calls, asked, botVars>>
    /\ sent' = <<>>

(***************************************************************************)
(* schedule_event.                                                         *)
(***************************************************************************)
Replace(bag, old, new) == (bag (-) SetToBag({old})) (+) SetToBag({new})

\* lines 232-243: the arguments are built, create_scheduled_event is awaited
SchedStart(d) ==
    /\ BagCardinality(calls) < MaxCalls
    /\ asked < MaxEvents
    /\ asked' = asked + 1
    /\ calls' = calls (+) SetToBag({[pc |-> "create", domain |-> d,
                                     title |-> Films[asked + 1],
                                     start_time |-> ScheduleStart, id |-> 0]})
    /\ UNCHANGED <<now, events, nextId, store, pass, botVars>>
    /\ Quiet

\* line 243: the platform creates the event
SchedCreate(c) ==
    /\ c.pc = "create"
    /\ events' = [events EXCEPT ![nextId] =
                    [guild |-> c.domain, status |-> "scheduled",
                     channel |-> event_channel(c.domain),
                     start_time |-> c.start_time]]
    /\ nextId' = nextId + 1
    /\ calls' = Replace(calls, c, [c EXCEPT !.pc = "send", !.id = nextId])
    /\ UNCHANGED <<now, store, pass, asked, botVars>>
    /\ Quiet

\* SchedCreateFail without the except clause: the exception leaves schedule_event
SchedCreateFail_Raises(c) ==
    /\ c.pc = "create"
    /\ calls' = calls (-) SetToBag({c})
    /\ raised' = {<<"schedule_event", c.domain>>}
    /\ UNCHANGED <<now, events, nextId, store, pass, asked, botVars>>
    /\ sent' = <<>>

\* lines 244-246: create_scheduled_event raises; log and return
SchedCreateFail(c) ==
    /\ c.pc = "create"
    /\ calls' = calls (-) SetToBag({c})
    /\ UNCHANGED <<now, events, nextId, store, pass, asked, botVars>>
    /\ Quiet

InviteMessage(c) ==
    [kind |-> "invite", mentions |-> <<member_role(c.domain)>>,
     event |-> c.id, title |-> c.title]

\* lines 249-251: the invitation is posted
SchedSend(c) ==
    /\ c.pc = "send"
    /\ sent' = Post(c.domain, InviteMessage(c))
    /\ calls' = Replace(calls, c, [c EXCEPT !.pc = "store"])
    /\ UNCHANGED <<now, events, nextId, store, pass, asked, botVars>>
    /\ raised' = {}

\* lines 249-251: announce_channel.send raises, and so does schedule_event
SchedSendFail(c) ==
    /\ c.pc = "send"
    /\ calls' = calls (-) SetToBag({c})
    /\ raised' = {<<"schedule_event", c.domain>>}
    /\ UNCHANGED <<now, events, nextId, store, pass, asked, botVars>>
    /\ sent' = <<>>

\* SchedStore writing the new Session alone, the list in the file not read
SchedStore_Overwrites(c) ==
    /\ c.pc = "store"
    /\ store' = [store EXCEPT ![c.domain] = write_sessions(<<Session(c.id, c.title, 2)>>)]
    /\ calls' = calls (-) SetToBag({c})
    /\ UNCHANGED <<now, events, nextId, pass, asked, botVars>>
    /\ Quiet

\* lines 253-254: read all, append, write all
SchedStore(c) ==
    /\ c.pc = "store"
    /\ store' = [store EXCEPT ![c.domain] =
                   write_sessions(read_sessions(c.domain)
                                  \o <<Session(c.id, c.title, 2)>>)]
    /\ calls' = calls (-) SetToBag({c})
    /\ UNCHANGED <<now, events, nextId, pass, asked, botVars>>
    /\ Quiet

(***************************************************************************)
(* The Bot: what the client can see, the configuration, and the registry   *)
(* of Domains that load_domains builds from them.                          *)
(***************************************************************************)
\* the guilds the client is a member of, by id
Guilds == {1, 2}

Guild(id) == [id |-> id]

Channel(id, type, guild) == [id |-> id, type |-> type, guild |-> Guild(guild)]

Role(id, guild) == [id |-> id, guild |-> Guild(guild)]

\* the channels the client can see; channel 1 is the first channel of an old
\* guild, which carries the id of the guild itself
Channels ==
    {Channel(1, "text", 1), Channel(11, "text", 1), Channel(12, "voice", 1),
     Channel(21, "text", 2), Channel(22, "voice", 2)}

Roles == {Role(15, 1), Role(25, 2)}

\* the ids a configuration may hold; 99 is the id of nothing
Ids == {1, 2, 11, 12, 15, 21, 22, 25, 99}

\* Client.get_guild, Client.get_channel, Guild.get_role
get_guild(id) == IF id \in Guilds THEN Guild(id) ELSE None

get_channel(id) ==
    IF \E ch \in Channels : ch.id = id
    THEN CHOOSE ch \in Channels : ch.id = id
    ELSE None

get_role(guild, id) ==
    IF \E r \in Roles : r.id = id /\ r.guild = guild
    THEN CHOOSE r \in Roles : r.id = id /\ r.guild = guild
    ELSE None

\* a function that returned, and one that raised
Returned(value) == [ok |-> TRUE, value |-> value]
Raised(error) == [ok |-> FALSE, error |-> error]

RuntimeError(what, binding) ==
    [type |-> "RuntimeError", what |-> what, binding |-> binding]

Domain(name, guild, control_channel, vote_channel, announce_channel_, event_channel_, member_role_) ==
    [name |-> name, guild |-> guild, control_channel |-> control_channel,
     vote_channel |-> vote_channel, announce_channel |-> announce_channel_,
     event_channel |-> event_channel_, member_role |-> member_role_]

\* Bot.load_domain: the checks in the order of the code
load_domain(name, c) ==
    LET guild == get_guild(c.guild)
        control_channel == get_channel(c.control_channel)
        vote_channel == get_channel(c.vote_channel)
        announce_channel_ == get_channel(c.announce_channel)
        event_channel_ == get_channel(c.event_channel)
        member_role_ == get_role(guild, c.member_role)
    IN  IF guild = None THEN Raised(RuntimeError("missing", "guild"))
        ELSE IF control_channel = None
            THEN Raised(RuntimeError("missing", "control_channel"))
        ELSE IF control_channel.type # "text"
            THEN Raised(RuntimeError("type", "control_channel"))
        ELSE IF control_channel.guild # guild
            THEN Raised(RuntimeError("foreign", "control_channel"))
        ELSE IF vote_channel = None
            THEN Raised(RuntimeError("missing", "vote_channel"))
        ELSE IF vote_channel.type # "text"
            THEN Raised(RuntimeError("type", "vote_channel"))
        \* line 438 tests the control channel once more
        ELSE IF control_channel.guild # guild
            THEN Raised(RuntimeError("foreign", "control_channel"))
        ELSE IF announce_channel_ = None
            THEN Raised(RuntimeError("missing", "announce_channel"))
        ELSE IF announce_channel_.type # "text"
            THEN Raised(RuntimeError("type", "announce_channel"))
        ELSE IF announce_channel_.guild # guild
            THEN Raised(RuntimeError("foreign", "announce_channel"))
        ELSE IF event_channel_ = None
            THEN Raised(RuntimeError("missing", "event_channel"))
        ELSE IF event_channel_.type # "voice"
            THEN Raised(RuntimeError("type", "event_channel"))
        ELSE IF event_channel_.guild # guild
            THEN Raised(RuntimeError("foreign", "event_channel"))
        ELSE IF member_role_ = None
            THEN Raised(RuntimeError("missing", "member_role"))
        ELSE IF member_role_.guild # guild
            THEN Raised(RuntimeError("foreign", "member_role"))
        ELSE Returned(Domain(name, guild, control_channel, vote_channel,
                             announce_channel_, event_channel_, member_role_))

\* lines 413-414: the message of the duplicate-domain error is built by
\* iterating over the dict itself, each key (an int) unpacked as a pair
DuplicateError(domains_by_guild) ==
    IF DOMAIN domains_by_guild = {}
    THEN [type |-> "RuntimeError", what |-> "duplicate", guilds |-> <<>>]
    ELSE [type |-> "TypeError", what |-> "cannot unpack non-iterable int object"]

\* Bot.load_domains: the registry, or the exception that leaves it
load_domains(config) ==
    LET loaded == [i \in 1..Len(config) |->
                     load_domain(config[i].name, config[i].cfg)]
        failed == {i \in 1..Len(config) : ~loaded[i].ok}
        first == CHOOSE i \in failed : \A j \in failed : i <= j
        guilds == {loaded[i].value.guild.id : i \in 1..Len(config)}
        domains_by_guild ==
            [g \in guilds |->
               {loaded[i].value.name :
                  i \in {j \in 1..Len(config) : loaded[j].value.guild.id = g}}]
    IN  IF failed # {} THEN Raised(loaded[first].error)
        ELSE IF \E g \in guilds : Cardinality(domains_by_guild[g]) > 1
            THEN Raised(DuplicateError(domains_by_guild))
        ELSE Returned([g \in guilds |->
                         loaded[CHOOSE i \in 1..Len(config) :
                                  loaded[i].value.guild.id = g].value])

\* an int passed where a Guild, an int or None may be
IntArg(i) == [int |-> i]

\* Bot.resolve_domain, for a Guild, an int or None
resolve_domain(guild) ==
    IF guild = None THEN None
    ELSE LET id == IF "id" \in DOMAIN guild THEN guild.id ELSE guild.int
         IN  IF id \in DOMAIN domains THEN domains[id] ELSE None

\* a configuration all of whose bindings are in guild g
Base(g) ==
    [guild |-> g, control_channel |-> 10 * g + 1, vote_channel |-> 10 * g + 1,
     announce_channel |-> 10 * g + 1, event_channel |-> 10 * g + 2,
     member_role |-> 10 * g + 5]

\* the Bot of the specification of one Domain: its Domain is loaded, and a
\* guild is known by the name of the Domain bound to it
LoadedDomains == [g \in Domains |-> [name |-> g]]

(***************************************************************************)
(* Event updates: on_scheduled_event_update -> handle_updated_event.       *)
(***************************************************************************)
\* the index of the session the dict of lines 352-354 holds for the id: the
\* last one of the list with that id, or 0
Lookup(sessions, id) ==
    LET found == {i \in 1..Len(sessions) : sessions[i].id = id}
    IN  IF found = {} THEN 0 ELSE CHOOSE i \in found : \A j \in found : j <= i

\* Reset counting up instead of setting the count
Reset_Increments(sessions, i) == [sessions EXCEPT ![i].reminder_count = @ + 1]

\* lines 360-361: the session's count is set to 2 and the list read is written
Reset(sessions, i) == [sessions EXCEPT ![i].reminder_count = 2]

RescheduleMessage(d, session, start_time) ==
    [kind |-> "rescheduled", mentions |-> <<member_role(d)>>,
     title |-> session.title, weekday |-> weekday(DateOf(start_time)),
     date |-> DateOf(start_time)]

\* handle_updated_event from its start to its first await or to its end
handle_updated_event(d, id, before, after) ==
    LET sessions == read_sessions(d)
        i == Lookup(sessions, id)
    IN  IF i = 0
        THEN store' = store /\ updates' = updates
        ELSE IF before.start_time # after.start_time
        THEN /\ BagCardinality(updates) < MaxUpdates
             /\ updates' = updates (+) SetToBag({[pc |-> "send", domain |-> d,
                                                  sessions |-> sessions, index |-> i,
                                                  start_time |-> after.start_time]})
             /\ store' = store
        ELSE /\ store' = [store EXCEPT ![d] = write_sessions(Reset(sessions, i))]
             /\ updates' = updates

\* on_scheduled_event_update, run as the client learns of the update
on_scheduled_event_update(id, before, after) ==
    LET domain == resolve_domain(Guild(after.guild))
    IN  IF domain = None
        THEN store' = store /\ updates' = updates
        ELSE IF before.channel # after.channel
        THEN store' = store /\ updates' = updates
        ELSE IF after.channel # event_channel(domain.name)
        THEN store' = store /\ updates' = updates
        ELSE handle_updated_event(domain.name, id, before, after)

\* line 359: the message is sent
UpdateSend(u) ==
    /\ u.pc = "send"
    /\ sent' = Post(u.domain, RescheduleMessage(u.domain, u.sessions[u.index],
                                                u.start_time))
    /\ raised' = {}
    /\ updates' = Replace(updates, u, [u EXCEPT !.pc = "write"])
    /\ UNCHANGED <<now, events, nextId, store, pass, calls, asked, cfg, domains,
                   reminder_timer, ballots>>

\* line 359: send raises, and the handler ends with the exception
UpdateSendFail(u) ==
    /\ u.pc = "send"
    /\ sent' = <<>>
    /\ raised' = {<<"handle_updated_event", u.domain>>}
    /\ updates' = updates (-) SetToBag({u})
    /\ UNCHANGED <<now, events, nextId, store, pass, calls, asked, cfg, domains,
                   reminder_timer, ballots>>

\* lines 360-361, after the send
UpdateWrite(u) ==
    /\ u.pc = "write"
    /\ store' = [store EXCEPT ![u.domain] = write_sessions(Reset(u.sessions, u.index))]
    /\ updates' = updates (-) SetToBag({u})
    /\ UNCHANGED <<now, events, nextId, pass, calls, asked, cfg, domains,
                   reminder_timer, ballots>>
    /\ Quiet

(***************************************************************************)
(* The environment: the clock, and the platform's users editing events. An *)
(* edit made while the client is away from the gateway reaches it with the *)
(* cache it gets at its return, and no update event is dispatched for it.  *)
(***************************************************************************)
Tick ==
    /\ now < MaxNow
    /\ now' = now + 1
    /\ UNCHANGED <<events, nextId, store, pass, calls, asked, botVars>>
    /\ Quiet

EventDelete(id) ==
    /\ events[id] # None
    /\ events' = [events EXCEPT ![id] = None]
    /\ UNCHANGED <<now, nextId, store, pass, calls, asked, botVars>>
    /\ Quiet

EventCancel(id) ==
    /\ events[id] # None
    /\ events[id].status = "scheduled"
    /\ events' = [events EXCEPT ![id].status = "canceled"]
    /\ UNCHANGED <<now, nextId, store, pass, calls, asked, botVars>>
    /\ Quiet

EventMove(id) ==
    /\ events[id] # None
    /\ events[id].status = "scheduled"
    /\ events[id].channel = event_channel(events[id].guild)
    /\ events' = [events EXCEPT ![id].channel = OtherChannel(events[id].guild)]
    /\ UNCHANGED <<now, nextId, store, pass, calls, asked, botVars>>
    /\ Quiet

EventReschedule(id, date) ==
    /\ events[id] # None
    /\ events[id].status = "scheduled"
    /\ events[id].start_time # At22(date)
    /\ events' = [events EXCEPT ![id].start_time = At22(date)]
    /\ UNCHANGED <<now, nextId, store, pass, calls, asked, botVars>>
    /\ Quiet

(***************************************************************************)
(* Edits the gateway tells the client of: the cache is updated and         *)
(* on_scheduled_event_update is dispatched with the event before and after.*)
(***************************************************************************)
Updated(id, after) ==
    /\ events' = [events EXCEPT ![id] = after]
    /\ on_scheduled_event_update(id, events[id], after)
    /\ UNCHANGED <<now, nextId, pass, calls, asked, cfg, domains, reminder_timer,
                   ballots>>
    /\ Quiet

UpdateCancel(id) ==
    /\ events[id] # None
    /\ events[id].status = "scheduled"
    /\ Updated(id, [events[id] EXCEPT !.status = "canceled"])

UpdateMove(id) ==
    /\ events[id] # None
    /\ events[id].status = "scheduled"
    /\ events[id].channel = event_channel(events[id].guild)
    /\ Updated(id, [events[id] EXCEPT !.channel = OtherChannel(events[id].guild)])

UpdateReschedule(id, date) ==
    /\ events[id] # None
    /\ events[id].status = "scheduled"
    /\ events[id].start_time # At22(date)
    /\ Updated(id, [events[id] EXCEPT !.start_time = At22(date)])

(***************************************************************************)
(* The specification.                                                      *)
(***************************************************************************)
Init ==
    /\ now = 0
    /\ events = [id \in EventIds |-> None]
    /\ nextId = 1
    /\ store = [d \in Domains |-> <<>>]
    /\ sent = <<>>
    /\ pass = [d \in Domains |-> IdlePass]
    /\ calls = EmptyBag
    /\ asked = 0
    /\ raised = {}
    /\ cfg = <<>>
    /\ domains = LoadedDomains
    /\ reminder_timer = None
    /\ ballots = <<>>
    /\ updates = EmptyBag

Next ==
    \/ \E d \in Domains : PassStart(d)
    \/ \E d \in Domains : PassEval(d)
    \/ \E d \in Domains : PassWrite(d)
    \/ \E d \in Domains : PassSend(d)
    \/ \E d \in Domains : PassSendFail(d)
    \/ \E d \in Domains : SchedStart(d)
    \/ \E c \in BagToSet(calls) : SchedCreate(c)
    \/ \E c \in BagToSet(calls) : SchedCreateFail(c)
    \/ \E c \in BagToSet(calls) : SchedSend(c)
    \/ \E c \in BagToSet(calls) : SchedSendFail(c)
    \/ \E c \in BagToSet(calls) : SchedStore(c)
    \/ Tick
    \/ \E id \in EventIds : EventDelete(id)
    \/ \E id \in EventIds : EventCancel(id)
    \/ \E id \in EventIds : EventMove(id)
    \/ \E id \in EventIds, date \in 0..MaxDate : EventReschedule(id, date)

Spec == Init /\ [][Next]_vars

(***************************************************************************)
(* One Domain with the gateway connected: events are scheduled, updated    *)
(* under the client's eyes, and reminded of, on one day; of the sends only *)
(* the one of handle_updated_event may fail.                               *)
(***************************************************************************)
UpdateNext ==
    \/ \E d \in Domains : PassStart(d)
    \/ \E d \in Domains : PassEval(d)
    \/ \E d \in Domains : PassWrite(d)
    \/ \E d \in Domains : PassSend(d)
    \/ \E d \in Domains : SchedStart(d)
    \/ \E c \in BagToSet(calls) : SchedCreate(c)
    \/ \E c \in BagToSet(calls) : SchedSend(c)
    \/ \E c \in BagToSet(calls) : SchedStore(c)
    \/ \E id \in EventIds : UpdateCancel(id)
    \/ \E id \in EventIds : UpdateMove(id)
    \/ \E id \in EventIds, date \in {0, MaxDate} : UpdateReschedule(id, date)
    \/ \E u \in BagToSet(updates) : UpdateSend(u)
    \/ \E u \in BagToSet(updates) : UpdateSendFail(u)
    \/ \E u \in BagToSet(updates) : UpdateWrite(u)

UpdateSpec == Init /\ [][UpdateNext]_vars

(***************************************************************************)
(* schedule_event started on any day of two weeks, the clock standing      *)
(* still: the specification under which the date it computes is examined.  *)
(***************************************************************************)
DateInit ==
    /\ now \in 0..(MaxStartDay * TicksPerDay + (TicksPerDay - 1))
    /\ events = [id \in EventIds |-> None]
    /\ nextId = 1
    /\ store = [d \in Domains |-> <<>>]
    /\ sent = <<>>
    /\ pass = [d \in Domains |-> IdlePass]
    /\ calls = EmptyBag
    /\ asked = 0
    /\ raised = {}
    /\ cfg = <<>>
    /\ domains = LoadedDomains
    /\ reminder_timer = None
    /\ ballots = <<>>
    /\ updates = EmptyBag

DateNext ==
    \/ \E d \in Domains : SchedStart(d)
    \/ \E c \in BagToSet(calls) : SchedCreate(c)
    \/ \E c \in BagToSet(calls) : SchedCreateFail(c)
    \/ \E c \in BagToSet(calls) : SchedSend(c)
    \/ \E c \in BagToSet(calls) : SchedSendFail(c)
    \/ \E c \in BagToSet(calls) : SchedStore(c)

DateSpec == DateInit /\ [][DateNext]_vars

(***************************************************************************)
(* The Bot's handlers: on_ready, on_message and handle_command.            *)
(***************************************************************************)
(***************************************************************************)
(* The reminder timer.  The ticks of a day are its 10:00 and its 22:00.    *)
(***************************************************************************)
HoursPerTick == 24 \div TicksPerDay

\* line 151: 10:00 of the day after today
TenAmTomorrow == (Today + 1) * TicksPerDay

\* Timer.__init__: the Timer on_ready creates, with the execute() coroutines
\* it has in flight
Timer == [callback |-> "send_reminders", repeat |-> TRUE, delay |-> -1,
          executions |-> <<>>]

\* an execute() coroutine in asyncio.sleep until due
Sleeping(due) == [pc |-> "sleep", due |-> due]

\* Timer.start: the delay is measured, and execute() is made a task
start(timer) ==
    [timer EXCEPT !.delay = TenAmTomorrow - now,
                  !.executions = Append(@, Sleeping(now + (TenAmTomorrow - now)))]

\* the names of the domains of a registry
Registered(registry) == {registry[g].name : g \in DOMAIN registry}

\* send_reminders, lines 496-498: the pass of every registered Domain is made
\* a task of one TaskGroup; each reads its store as it starts
Started(registry) ==
    [d \in DOMAIN pass |->
       IF d \in Registered(registry)
       THEN [pc |-> "eval", sessions |-> read_sessions(d), tasks |-> <<>>,
             announcements |-> <<>>]
       ELSE pass[d]]

\* no pass of a registered Domain is in flight
AllIdle(registry) == \A d \in Registered(registry) : pass[d] = IdlePass

\* on_ready without the test of line 390
OnReady_Restarts ==
    LET result == IF domains = <<>> THEN load_domains(cfg) ELSE Returned(domains)
        timer == start(IF reminder_timer = None THEN Timer ELSE reminder_timer)
    IN  /\ result.ok
        /\ AllIdle(result.value)
        /\ domains' = result.value
        /\ reminder_timer' = timer
        /\ pass' = IF timer.delay * HoursPerTick > 4
                   THEN Started(result.value) ELSE pass
        /\ UNCHANGED <<now, events, nextId, store, calls, asked, cfg, ballots, updates>>
        /\ Quiet

\* on_ready: the domains are loaded (unless there are some); unless there is a
\* timer, one is created and started, and the reminders are sent at once when
\* its delay is more than four hours (one pass of a Domain is in flight at a
\* time)
OnReady ==
    LET result == IF domains = <<>> THEN load_domains(cfg) ELSE Returned(domains)
        timer == start(Timer)
    IN  /\ result.ok
        /\ domains' = result.value
        /\ IF reminder_timer # None
           THEN UNCHANGED <<reminder_timer, pass>>
           ELSE /\ AllIdle(result.value)
                /\ reminder_timer' = timer
                /\ pass' = IF timer.delay * HoursPerTick > 4
                           THEN Started(result.value) ELSE pass
        /\ UNCHANGED <<now, events, nextId, store, calls, asked, cfg, ballots, updates>>
        /\ Quiet

\* OnReady's failure starting the timer all the same
OnReadyFail_StartsTimer ==
    /\ domains = <<>>
    /\ ~load_domains(cfg).ok
    /\ raised' = {<<"on_ready", load_domains(cfg).error>>}
    /\ sent' = <<>>
    /\ reminder_timer' = start(Timer)
    /\ UNCHANGED <<now, events, nextId, store, pass, calls, asked, cfg, domains,
                   ballots, updates>>

\* line 386: load_domains raises, and on_ready ends with its exception
OnReadyFail ==
    /\ domains = <<>>
    /\ ~load_domains(cfg).ok
    /\ raised' = {<<"on_ready", load_domains(cfg).error>>}
    /\ sent' = <<>>
    /\ UNCHANGED <<now, events, nextId, store, pass, calls, asked, botVars>>

\* the execute() coroutines in flight
Executions == IF reminder_timer = None THEN <<>> ELSE reminder_timer.executions

\* asyncio.sleep, line 158: time passes, up to the hour an execute() sleeps to
Sleep ==
    /\ now < MaxClock
    /\ reminder_timer # None =>
          \A i \in 1..Len(reminder_timer.executions) :
              reminder_timer.executions[i].pc = "sleep" =>
                  reminder_timer.executions[i].due > now
    /\ now' = now + 1
    /\ UNCHANGED <<events, nextId, store, pass, calls, asked, botVars>>
    /\ Quiet

\* Timer.execute, lines 158-162: the sleep of execution i is over, and the
\* callback send_reminders starts the passes (one pass of a Domain is in
\* flight at a time)
TimerWake(i) ==
    /\ reminder_timer # None
    /\ i \in 1..Len(reminder_timer.executions)
    /\ reminder_timer.executions[i].pc = "sleep"
    /\ reminder_timer.executions[i].due <= now
    /\ AllIdle(domains)
    /\ reminder_timer' = [reminder_timer EXCEPT !.executions[i].pc = "callback"]
    /\ pass' = Started(domains)
    /\ UNCHANGED <<now, events, nextId, store, calls, asked, cfg, domains, ballots,
                   updates>>
    /\ Quiet

\* the sequence without its element i
Without(seq, i) == [j \in 1..(Len(seq) - 1) |-> IF j < i THEN seq[j] ELSE seq[j + 1]]

\* Timer.execute, lines 162-164: the callback has returned, every pass of its
\* TaskGroup being done; a new execute() is made a task, which sleeps for the
\* delay once more
TimerRearm(i) ==
    /\ reminder_timer # None
    /\ i \in 1..Len(reminder_timer.executions)
    /\ reminder_timer.executions[i].pc = "callback"
    /\ AllIdle(domains)
    /\ reminder_timer' =
          [reminder_timer EXCEPT !.executions =
             IF reminder_timer.repeat
             THEN Append(Without(@, i), Sleeping(now + reminder_timer.delay))
             ELSE Without(@, i)]
    /\ UNCHANGED <<now, events, nextId, store, pass, calls, asked, cfg, domains,
                   ballots, updates>>
    /\ Quiet

InCallback(execution) == execution.pc = "callback"
NotInCallback(execution) == execution.pc # "callback"

\* announce, lines 261 and 265, in the TaskGroup of send_reminders: the send of
\* Domain d raises; the TaskGroup cancels the passes still in flight and raises,
\* and the execute() that awaits the callback ends with the exception
RemindersFail(d) ==
    /\ d \in Registered(domains)
    /\ pass[d].pc = "send"
    /\ pass[d].announcements # <<>>
    /\ pass' = [e \in DOMAIN pass |->
                  IF e \in Registered(domains) THEN IdlePass ELSE pass[e]]
    /\ raised' = {<<"announce", d>>}
                   \cup {<<"cancelled", e>> :
                           e \in {f \in Registered(domains) \ {d} : pass[f] # IdlePass}}
                   \cup {<<"execute", "send_reminders">> :
                           i \in {j \in 1..Len(reminder_timer.executions) :
                                    InCallback(reminder_timer.executions[j])}}
    /\ reminder_timer' = [reminder_timer EXCEPT
                            !.executions = SelectSeq(@, NotInCallback)]
    /\ sent' = <<>>
    /\ UNCHANGED <<now, events, nextId, store, calls, asked, cfg, domains, ballots,
                   updates>>

\* a word of a message: a URL with its scheme and the site its text begins
\* with, or (no scheme) some other word
Word(scheme, site) == [scheme |-> scheme, site |-> site]

Words ==
    {Word("", "<@bot>"), Word("https", "boxd.it"), Word("https", "letterboxd.com"),
     Word("http", "boxd.it"), Word("https", "example.com")}

\* the texts of at most n words, each a sequence of words
Texts(n) == UNION {[1..k -> Words] : k \in 0..n}

\* scanner.is_url: ^https://(boxd\.it|letterboxd\.com)[^\s]*$
is_url(s) ==
    /\ Len(s) = 1
    /\ s[1].scheme = "https"
    /\ s[1].site \in {"boxd.it", "letterboxd.com"}

\* line 214: content.strip().partition(' ')[2].strip()
Remainder(content) == IF content = <<>> THEN <<>> ELSE Tail(content)

\* the contents of the messages: nothing, or a first word (the mention of the
\* bot, or a URL) and at most MaxWords - 1 words after it
Contents ==
    {<<>>} \cup {<<w>> \o t : w \in {Word("", "<@bot>"), Word("https", "boxd.it")},
                             t \in Texts(MaxWords - 1)}

\* the messages the client may receive: in a channel of a guild, or direct
Messages ==
    {[guild |-> ch.guild, channel |-> ch, mentions_bot |-> b, content |-> t] :
        ch \in Channels, b \in BOOLEAN, t \in Contents}
    \cup {[guild |-> None, channel |-> None, mentions_bot |-> b, content |-> t] :
            b \in BOOLEAN, t \in Contents}

\* the Domain on_message hands the message to, or None
Addressed(m) ==
    LET domain == resolve_domain(m.guild)
    IN  IF domain = None \/ ~m.mentions_bot THEN None ELSE domain

Reply(channel, text) == <<[to |-> channel, message |-> [kind |-> "text", text |-> text]]>>

\* OnMessage without the test of line 211
OnMessage_AnyChannel(m) ==
    LET domain == Addressed(m)
    IN  /\ UNCHANGED <<now, events, nextId, store, pass, asked, botVars>>
        /\ IF domain = None
           THEN calls' = calls /\ Quiet
           ELSE IF ~is_url(Remainder(m.content))
           THEN calls' = calls /\ sent' = Reply(m.channel, "Invalid URL")
                /\ raised' = {}
           ELSE /\ BagCardinality(calls) < MaxCalls
                /\ calls' = calls (+) SetToBag({[pc |-> "fetch",
                                                 domain |-> domain.name,
                                                 url |-> Remainder(m.content)[1]]})
                /\ Quiet

\* on_message and handle_command, up to the reply or to the fetch of the page
OnMessage(m) ==
    LET domain == Addressed(m)
    IN  /\ UNCHANGED <<now, events, nextId, store, pass, asked, botVars>>
        /\ IF domain = None
           THEN calls' = calls /\ Quiet
           ELSE IF m.channel # domain.control_channel
           THEN calls' = calls /\ Quiet
           ELSE IF ~is_url(Remainder(m.content))
           THEN calls' = calls /\ sent' = Reply(m.channel, "Invalid URL")
                /\ raised' = {}
           ELSE /\ BagCardinality(calls) < MaxCalls
                /\ calls' = calls (+) SetToBag({[pc |-> "fetch",
                                                 domain |-> domain.name,
                                                 url |-> Remainder(m.content)[1]]})
                /\ Quiet

\* line 217: the reply cannot be sent, and handle_command ends with the exception
OnMessageReplyFail(m) ==
    LET domain == Addressed(m)
    IN  /\ domain # None
        /\ m.channel = domain.control_channel
        /\ ~is_url(Remainder(m.content))
        /\ raised' = {<<"handle_command", domain.name>>}
        /\ sent' = <<>>
        /\ UNCHANGED <<now, events, nextId, store, pass, calls, asked, botVars>>

\* MovieInfo.from_url returns, and schedule_event is entered (lines 232-243)
MovieFetched(c) ==
    /\ c.pc = "fetch"
    /\ asked < MaxEvents
    /\ asked' = asked + 1
    /\ calls' = Replace(calls, c, [pc |-> "create", domain |-> c.domain,
                                   title |-> Films[asked + 1],
                                   start_time |-> ScheduleStart, id |-> 0])
    /\ UNCHANGED <<now, events, nextId, store, pass, botVars>>
    /\ Quiet

\* MovieInfo.from_url raises (lines 58-60), and the handler ends with it
MovieFetchFail(c) ==
    /\ c.pc = "fetch"
    /\ calls' = calls (-) SetToBag({c})
    /\ raised' = {<<"from_url", c.domain>>}
    /\ sent' = <<>>
    /\ UNCHANGED <<now, events, nextId, store, pass, asked, botVars>>

\* the names of the domains of the Bot's configurations
Names == {"tsay", "book"}

Configured(name, c) == [name |-> name, cfg |-> c]

\* the configurations the Bot is started with: two domains in two guilds; one
\* domain whose vote channel is the guild's first channel; one that fails
BotConfigs ==
    {<<Configured("tsay", Base(1)), Configured("book", Base(2))>>,
     <<Configured("tsay", [Base(1) EXCEPT !.vote_channel = 1])>>,
     <<Configured("tsay", [Base(1) EXCEPT !.guild = 99])>>}

\* on_ready is over, and so are the reminders it sent
BotInit ==
    /\ now = 0
    /\ events = [id \in EventIds |-> None]
    /\ nextId = 1
    /\ store = [d \in Names |-> <<>>]
    /\ sent = <<>>
    /\ pass = [d \in Names |-> IdlePass]
    /\ calls = EmptyBag
    /\ asked = 0
    /\ raised = {}
    /\ cfg \in BotConfigs
    /\ domains = (IF load_domains(cfg).ok THEN load_domains(cfg).value ELSE <<>>)
    /\ reminder_timer = (IF load_domains(cfg).ok THEN start(Timer) ELSE None)
    /\ ballots = <<>>
    /\ updates = EmptyBag

BotNext ==
    \/ \E m \in Messages : OnMessage(m)
    \/ \E m \in Messages : OnMessageReplyFail(m)
    \/ \E c \in BagToSet(calls) : MovieFetched(c)
    \/ \E c \in BagToSet(calls) : MovieFetchFail(c)
    \/ \E c \in BagToSet(calls) : SchedCreate(c)
    \/ \E c \in BagToSet(calls) : SchedCreateFail(c)
    \/ \E c \in BagToSet(calls) : SchedSend(c)
    \/ \E c \in BagToSet(calls) : SchedSendFail(c)
    \/ \E c \in BagToSet(calls) : SchedStore(c)

BotSpec == BotInit /\ [][BotNext]_vars

(***************************************************************************)
(* Voting: scanner.extract_urls_from_ballot, get_winner, and the commands  *)
(* /ballot (create_ballot) and End Voting (close_poll).                    *)
(***************************************************************************)
\* a piece of a ballot text: a markdown link [label](scheme://url), or (no
\* scheme) other text
Piece(label, scheme, url) == [label |-> label, scheme |-> scheme, url |-> url]

Pieces ==
    {Piece(".", "https", "boxd.it/a"), Piece(".", "https", "boxd.it/b"),
     Piece(".", "http", "boxd.it/a"), Piece("Alien", "https", "boxd.it/a")}

\* scanner.extract_urls_from_ballot: \[\.\]\((https://[^\)]*)\)
IsEmbedded(piece) == piece.label = "." /\ piece.scheme = "https"

extract_urls_from_ballot(ballot) ==
    LET embedded == SelectSeq(ballot, IsEmbedded)
    IN  [i \in 1..Len(embedded) |-> embedded[i].url]

VotingError(msg, response) == [type |-> "VotingError", msg |-> msg, response |-> response]

\* BookSession.get_winner with its tie left undetected
get_winner_FirstOfTied(ballot_text, poll) ==
    LET urls == extract_urls_from_ballot(ballot_text)
    IN  IF urls = <<>>
        THEN Raised(VotingError("no embedded URLs", "This is not a valid ballot."))
        ELSE IF poll = None
        THEN Raised(VotingError("no poll", "This message does not contain a poll."))
        ELSE IF Len(urls) # Len(poll.answers)
        THEN Raised(VotingError("count mismatch", "This is not a valid ballot."))
        ELSE LET counts == {poll.answers[i].vote_count : i \in 1..Len(poll.answers)}
                 highest_vote_count == CHOOSE v \in counts : \A w \in counts : w <= v
                 IsHighest(entry) == entry[2].vote_count = highest_vote_count
                 winners == SelectSeq([i \in 1..Len(urls) |-> <<urls[i], poll.answers[i]>>],
                                      IsHighest)
             IN  Returned(<<winners[1][1], winners[1][2].text>>)

\* BookSession.get_winner asking for the poll before the URLs
get_winner_PollFirst(ballot_text, poll) ==
    LET urls == extract_urls_from_ballot(ballot_text)
    IN  IF poll = None
        THEN Raised(VotingError("no poll", "This message does not contain a poll."))
        ELSE IF urls = <<>>
        THEN Raised(VotingError("no embedded URLs", "This is not a valid ballot."))
        ELSE IF Len(urls) # Len(poll.answers)
        THEN Raised(VotingError("count mismatch", "This is not a valid ballot."))
        ELSE LET counts == {poll.answers[i].vote_count : i \in 1..Len(poll.answers)}
                 highest_vote_count == CHOOSE v \in counts : \A w \in counts : w <= v
                 IsHighest(entry) == entry[2].vote_count = highest_vote_count
                 winners == SelectSeq([i \in 1..Len(urls) |-> <<urls[i], poll.answers[i]>>],
                                      IsHighest)
             IN  IF Len(winners) > 1
                 THEN Raised(VotingError("multiple winners",
                                         "There is a tie. Please break the tie and try again."))
                 ELSE Returned(<<winners[1][1], winners[1][2].text>>)

\* BookSession.get_winner
get_winner(ballot_text, poll) ==
    LET urls == extract_urls_from_ballot(ballot_text)
    IN  IF urls = <<>>
        THEN Raised(VotingError("no embedded URLs", "This is not a valid ballot."))
        ELSE IF poll = None
        THEN Raised(VotingError("no poll", "This message does not contain a poll."))
        ELSE IF Len(urls) # Len(poll.answers)
        THEN Raised(VotingError("count mismatch", "This is not a valid ballot."))
        ELSE LET counts == {poll.answers[i].vote_count : i \in 1..Len(poll.answers)}
                 highest_vote_count == CHOOSE v \in counts : \A w \in counts : w <= v
                 IsHighest(entry) == entry[2].vote_count = highest_vote_count
                 winners == SelectSeq([i \in 1..Len(urls) |-> <<urls[i], poll.answers[i]>>],
                                      IsHighest)
             IN  IF Len(winners) > 1
                 THEN Raised(VotingError("multiple winners",
                                         "There is a tie. Please break the tie and try again."))
                 ELSE Returned(<<winners[1][1], winners[1][2].text>>)

\* the user of a command, to whom interaction.response goes
Interaction == [interaction |-> "response"]

\* the form /ballot offers
MovieForm == <<[to |-> Interaction, message |-> [kind |-> "modal", form |-> "Nominations"]]>>

\* SlashBallot.create_ballot, used in channel ch
CreateBallot(ch) ==
    /\ sent' = IF resolve_domain(IntArg(ch.id)) = None
               THEN Reply(Interaction, "/ballot cannot be used in this channel.")
               ELSE MovieForm
    /\ raised' = {}
    /\ UNCHANGED <<now, events, nextId, store, pass, calls, asked, botVars>>

\* close_poll, lines 97-102: End Voting is used on message id, and the message
\* is asked of the vote channel
ClosePoll(id) ==
    LET domain == resolve_domain(IntArg(ballots[id].channel.id))
    IN  /\ UNCHANGED <<now, events, nextId, store, pass, asked, botVars>>
        /\ raised' = {}
        /\ IF domain = None
           THEN /\ calls' = calls
                /\ sent' = Reply(Interaction,
                                 "This is not a valid channel for this interaction.")
           ELSE /\ BagCardinality(calls) < MaxCalls
                /\ calls' = calls (+) SetToBag({[pc |-> "fetch_message",
                                                 domain |-> domain.name,
                                                 vote_channel |-> domain.vote_channel,
                                                 message |-> id]})
                /\ sent' = <<>>

\* the reply of line 113-115
WinnerReply(title) ==
    <<[to |-> Interaction, message |-> [kind |-> "winner", title |-> title]]>>

\* ClosePollFetched ending the poll before the winner is known
ClosePollFetched_EndsPoll(c) ==
    LET message == ballots[c.message]
        result == get_winner(message.content, message.poll)
    IN  /\ c.pc = "fetch_message"
        /\ message.channel = c.vote_channel
        /\ raised' = {}
        /\ UNCHANGED <<now, events, nextId, store, pass, asked, cfg, domains,
                       reminder_timer, updates>>
        /\ IF result.ok
           THEN /\ sent' = WinnerReply(result.value[2])
                /\ ballots' = [ballots EXCEPT ![c.message].poll.finalized = TRUE]
                /\ calls' = Replace(calls, c, [pc |-> "fetch", domain |-> c.domain,
                                               url |-> result.value[1]])
           ELSE /\ sent' = Reply(Interaction, result.error.response)
                /\ ballots' = IF message.poll = None THEN ballots
                              ELSE [ballots EXCEPT ![c.message].poll.finalized = TRUE]
                /\ calls' = calls (-) SetToBag({c})

\* close_poll, lines 103-118: the message has come; the winner is determined,
\* and told, the poll is ended and the winner's page is asked for, or the
\* voting error is told
ClosePollFetched(c) ==
    LET message == ballots[c.message]
        result == get_winner(message.content, message.poll)
    IN  /\ c.pc = "fetch_message"
        /\ message.channel = c.vote_channel
        /\ raised' = {}
        /\ UNCHANGED <<now, events, nextId, store, pass, asked, cfg, domains,
                       reminder_timer, updates>>
        /\ IF result.ok
           THEN /\ sent' = WinnerReply(result.value[2])
                /\ ballots' = [ballots EXCEPT ![c.message].poll.finalized = TRUE]
                /\ calls' = Replace(calls, c, [pc |-> "fetch", domain |-> c.domain,
                                               url |-> result.value[1]])
           ELSE /\ sent' = Reply(Interaction, result.error.response)
                /\ ballots' = ballots
                /\ calls' = calls (-) SetToBag({c})

\* line 102: fetch_message raises (the message is not of the vote channel, or
\* the request fails), and close_poll ends with the exception
ClosePollFetchFail(c) ==
    /\ c.pc = "fetch_message"
    /\ calls' = calls (-) SetToBag({c})
    /\ raised' = {<<"close_poll", c.domain>>}
    /\ sent' = <<>>
    /\ UNCHANGED <<now, events, nextId, store, pass, asked, botVars>>

\* the polls: MaxAnswers answers at most, each with its text and its votes
Answer(text, vote_count) == [text |-> text, vote_count |-> vote_count]

Polls ==
    {[answers |-> [i \in 1..n |-> Answer(Films[i], votes[i])], finalized |-> f] :
        n \in 1..MaxAnswers, votes \in [1..MaxAnswers -> 0..MaxVotes], f \in BOOLEAN}

\* the messages End Voting may be used on: in a text channel of guild 1, with
\* or without a poll
Ballots ==
    {[channel |-> ch, content |-> t, poll |-> p] :
        ch \in {get_channel(1), get_channel(11)},
        t \in UNION {[1..k -> Pieces] : k \in 0..MaxPieces},
        p \in Polls \cup {None}}

\* on_ready is over, and so are the reminders it sent
PollInit ==
    /\ now = 0
    /\ events = [id \in EventIds |-> None]
    /\ nextId = 1
    /\ store = [d \in Names |-> <<>>]
    /\ sent = <<>>
    /\ pass = [d \in Names |-> IdlePass]
    /\ calls = EmptyBag
    /\ asked = 0
    /\ raised = {}
    /\ cfg \in BotConfigs
    /\ domains = (IF load_domains(cfg).ok THEN load_domains(cfg).value ELSE <<>>)
    /\ reminder_timer = (IF load_domains(cfg).ok THEN start(Timer) ELSE None)
    /\ ballots \in {<<b>> : b \in Ballots}
    /\ updates = EmptyBag

PollNext ==
    \/ \E ch \in Channels : CreateBallot(ch)
    \/ \E id \in DOMAIN ballots : ClosePoll(id)
    \/ \E c \in BagToSet(calls) : ClosePollFetched(c)
    \/ \E c \in BagToSet(calls) : ClosePollFetchFail(c)
    \/ \E c \in BagToSet(calls) : MovieFetched(c)
    \/ \E c \in BagToSet(calls) : MovieFetchFail(c)
    \/ \E c \in BagToSet(calls) : SchedCreate(c)
    \/ \E c \in BagToSet(calls) : SchedCreateFail(c)
    \/ \E c \in BagToSet(calls) : SchedSend(c)
    \/ \E c \in BagToSet(calls) : SchedSendFail(c)
    \/ \E c \in BagToSet(calls) : SchedStore(c)

PollSpec == PollInit /\ [][PollNext]_vars

(***************************************************************************)
(* Ballot creation: SlashBallot.send_poll, called with the four URLs of    *)
(* the submitted form.                                                     *)
(***************************************************************************)
\* a URL as it is typed into the form
Url(scheme, url) == [scheme |-> scheme, url |-> url]

Nominated == {Url("https", "boxd.it/a"), Url("https", "boxd.it/b"), Url("http", "boxd.it/a")}

\* the number of fields of MovieForm
Nominations == 4

\* the title MovieInfo.from_url reads on the page of a URL
TitleOf(url) == IF url.url = "boxd.it/a" THEN Films[1] ELSE Films[2]

\* MovieInfo, without its year and its image
MovieInfo(title, url) == [title |-> title, url |-> url]

\* lines 74-79: the message that presents the choices
Presentation(choices) ==
    <<[to |-> Interaction, message |-> [kind |-> "presents", films |-> choices]]>>

\* BallotMessage with the answers of the poll in the opposite order
BallotMessage_Reversed(channel, choices) ==
    [channel |-> channel,
     content |-> [i \in 1..Len(choices) |->
                    Piece(".", choices[i].url.scheme, choices[i].url.url)],
     poll |-> [answers |-> [i \in 1..Len(choices) |->
                              Answer(choices[Len(choices) + 1 - i].title, 0)],
               finalized |-> FALSE]]

\* lines 81-84: the ballot message, one [.](url) for each choice, and its poll,
\* one answer for each choice
BallotMessage(channel, choices) ==
    [channel |-> channel,
     content |-> [i \in 1..Len(choices) |->
                    Piece(".", choices[i].url.scheme, choices[i].url.url)],
     poll |-> [answers |-> [i \in 1..Len(choices) |-> Answer(choices[i].title, 0)],
               finalized |-> FALSE]]

\* send_poll, lines 60-69: the form is submitted in channel ch (None: a channel
\* that takes no messages); the fetches are made tasks of one TaskGroup
SubmitBallot(ch, urls) ==
    /\ UNCHANGED <<now, events, nextId, store, pass, asked, botVars>>
    /\ raised' = {}
    /\ IF ch = None
       THEN /\ sent' = Reply(Interaction, "This is not a valid channel.")
            /\ calls' = calls
       ELSE /\ BagCardinality(calls) < MaxCalls
            /\ Len(ballots) < MaxBallots
            /\ sent' = <<>>
            /\ calls' = calls (+) SetToBag({[pc |-> "movies", channel |-> ch,
                                             urls |-> urls,
                                             results |-> [i \in 1..Len(urls) |-> None]]})

\* MovieInfo.from_url of the URL at position i returns
BallotFetched(c, i) ==
    /\ c.pc = "movies"
    /\ i \in 1..Len(c.urls)
    /\ c.results[i] = None
    /\ calls' = Replace(calls, c,
                        [c EXCEPT !.results[i] = MovieInfo(TitleOf(c.urls[i]), c.urls[i])])
    /\ UNCHANGED <<now, events, nextId, store, pass, asked, botVars>>
    /\ Quiet

\* MovieInfo.from_url of the URL at position i raises: the TaskGroup cancels
\* the other fetches and raises, and send_poll ends
BallotFetchFail(c, i) ==
    /\ c.pc = "movies"
    /\ i \in 1..Len(c.urls)
    /\ c.results[i] = None
    /\ calls' = calls (-) SetToBag({c})
    /\ raised' = {<<"send_poll", c.channel.id>>}
    /\ sent' = <<>>
    /\ UNCHANGED <<now, events, nextId, store, pass, asked, botVars>>

\* lines 70-79: every fetch has returned; the choices are presented
BallotPresent(c) ==
    /\ c.pc = "movies"
    /\ \A i \in 1..Len(c.urls) : c.results[i] # None
    /\ sent' = Presentation(c.results)
    /\ raised' = {}
    /\ calls' = Replace(calls, c, [c EXCEPT !.pc = "ballot"])
    /\ UNCHANGED <<now, events, nextId, store, pass, asked, botVars>>

\* line 72: interaction.response.send_message raises
BallotPresentFail(c) ==
    /\ c.pc = "movies"
    /\ \A i \in 1..Len(c.urls) : c.results[i] # None
    /\ calls' = calls (-) SetToBag({c})
    /\ raised' = {<<"send_poll", c.channel.id>>}
    /\ sent' = <<>>
    /\ UNCHANGED <<now, events, nextId, store, pass, asked, botVars>>

\* lines 81-84: the ballot and its poll are posted in the channel
BallotPost(c) ==
    /\ c.pc = "ballot"
    /\ ballots' = Append(ballots, BallotMessage(c.channel, c.results))
    /\ sent' = <<[to |-> c.channel, message |-> [kind |-> "ballot", id |-> Len(ballots) + 1]]>>
    /\ raised' = {}
    /\ calls' = calls (-) SetToBag({c})
    /\ UNCHANGED <<now, events, nextId, store, pass, asked, cfg, domains,
                   reminder_timer, updates>>

\* line 84: interaction.channel.send raises
BallotPostFail(c) ==
    /\ c.pc = "ballot"
    /\ calls' = calls (-) SetToBag({c})
    /\ raised' = {<<"send_poll", c.channel.id>>}
    /\ sent' = <<>>
    /\ UNCHANGED <<now, events, nextId, store, pass, asked, botVars>>

\* on_ready is over, and so are the reminders it sent; no ballot is posted yet
BallotInit ==
    /\ now = 0
    /\ events = [id \in EventIds |-> None]
    /\ nextId = 1
    /\ store = [d \in Names |-> <<>>]
    /\ sent = <<>>
    /\ pass = [d \in Names |-> IdlePass]
    /\ calls = EmptyBag
    /\ asked = 0
    /\ raised = {}
    /\ cfg \in BotConfigs
    /\ domains = (IF load_domains(cfg).ok THEN load_domains(cfg).value ELSE <<>>)
    /\ reminder_timer = (IF load_domains(cfg).ok THEN start(Timer) ELSE None)
    /\ ballots = <<>>
    /\ updates = EmptyBag

BallotNext ==
    \/ \E ch \in Channels : CreateBallot(ch)
    \/ \E ch \in {get_channel(1), get_channel(11), None},
          urls \in [1..Nominations -> Nominated] : SubmitBallot(ch, urls)
    \/ \E c \in BagToSet(calls), i \in 1..Nominations : BallotFetched(c, i)
    \/ \E c \in BagToSet(calls), i \in 1..Nominations : BallotFetchFail(c, i)
    \/ \E c \in BagToSet(calls) : BallotPresent(c)
    \/ \E c \in BagToSet(calls) : BallotPresentFail(c)
    \/ \E c \in BagToSet(calls) : BallotPost(c)
    \/ \E c \in BagToSet(calls) : BallotPostFail(c)

BallotSpec == BallotInit /\ [][BallotNext]_vars

(***************************************************************************)
(* Loading: the configurations the Bot may be started with, and the        *)
(* reminders its timer runs once the domains are loaded.                   *)
(***************************************************************************)
Bindings ==
    {"guild", "control_channel", "vote_channel", "announce_channel",
     "event_channel", "member_role"}

\* Base(g), and Base(g) with one binding set to some other id
Variants(g) ==
    {Base(g)} \cup {[Base(g) EXCEPT ![f] = id] : f \in Bindings, id \in Ids}

\* one domain, or two of which the second is sound
LoadConfigs ==
    {<<Configured("tsay", c)>> : c \in Variants(1)}
      \cup {<<Configured("tsay", c), Configured("book", Base(g))>> :
              c \in Variants(1), g \in Guilds}

LoadInit ==
    /\ now = 0
    /\ events = [id \in EventIds |-> None]
    /\ nextId = 1
    /\ store = [d \in Names |-> <<>>]
    /\ sent = <<>>
    /\ pass = [d \in Names |-> IdlePass]
    /\ calls = EmptyBag
    /\ asked = 0
    /\ raised = {}
    /\ cfg \in LoadConfigs
    /\ domains = <<>>
    /\ reminder_timer = None
    /\ ballots = <<>>
    /\ updates = EmptyBag

LoadNext ==
    \/ OnReady
    \/ OnReadyFail
    \/ \E d \in Names : PassEval(d)
    \/ \E d \in Names : PassWrite(d)
    \/ \E d \in Names : PassSend(d)

LoadSpec == LoadInit /\ [][LoadNext]_vars

(***************************************************************************)
(* The reminders: the Bot is started at 10:00 or at 22:00 of day 0, each   *)
(* Domain with a Session of an event of tonight or of the day after        *)
(* tomorrow; on_ready may come again at any time (the client reconnects).  *)
(***************************************************************************)
\* the scheduled event of Domain d that starts at 22:00 of the given date
EventOf(d, date) ==
    [guild |-> d, status |-> "scheduled", channel |-> event_channel(d),
     start_time |-> At22(date)]

RemindInit ==
    /\ now \in 0..(TicksPerDay - 1)
    /\ events \in {<<EventOf("tsay", t), EventOf("book", b)>> : t \in {0, 2}, b \in {0, 2}}
    /\ nextId = 3
    /\ store = [d \in Names |->
                  IF d = "tsay" THEN <<todict(Session(1, Films[1], 2))>>
                  ELSE <<todict(Session(2, Films[2], 2))>>]
    /\ sent = <<>>
    /\ pass = [d \in Names |-> IdlePass]
    /\ calls = EmptyBag
    /\ asked = 0
    /\ raised = {}
    /\ cfg \in BotConfigs
    /\ domains = <<>>
    /\ reminder_timer = None
    /\ ballots = <<>>
    /\ updates = EmptyBag

RemindNext ==
    \/ OnReady
    \/ OnReadyFail
    \/ Sleep
    \/ \E i \in 1..Len(Executions) : TimerWake(i)
    \/ \E i \in 1..Len(Executions) : TimerRearm(i)
    \/ \E d \in Names : PassEval(d)
    \/ \E d \in Names : PassWrite(d)
    \/ \E d \in Names : PassSend(d)
    \/ \E d \in Names : RemindersFail(d)

RemindSpec == RemindInit /\ [][RemindNext]_vars

(***************************************************************************)
(* The steps of a reminder pass, told by the coroutine's position, and the *)
(* situation of a session's event when its task runs.                      *)
(***************************************************************************)
\* the announce_event tasks of d's pass run in this step
EvalStep(d) == pass[d].pc = "eval" /\ pass'[d].pc = "gather"

\* d's pass rewrites the store in this step
WriteStep(d) == pass[d].pc = "gather" /\ pass'[d].pc = "send"

\* d's announce() ends in this step
EndStep(d) == pass[d].pc = "send" /\ pass'[d].pc = "idle"

Found(d, s) == s.id \in EventIds /\ events[s.id] # None /\ events[s.id].guild = d

Scheduled(d, s) == Found(d, s) /\ events[s.id].status = "scheduled"

AtVenue(d, s) == Scheduled(d, s) /\ events[s.id].channel = event_channel(d)

\* the time left until the session's event starts, in ticks
TimeLeft(s) == events[s.id].start_time - now

\* at least `days` whole days are left, and less than one more
WholeDaysLeft(s, days) ==
    /\ days * TicksPerDay <= TimeLeft(s)
    /\ TimeLeft(s) < (days + 1) * TicksPerDay

\* the number of sessions the tasks 1..i keep: the place of task i's session
\* among the survivors
Kept(tasks, i) == Cardinality({j \in 1..i : tasks[j][1] # None})

\* the number of announcements in the list that are the given one
Count(announcements, a) ==
    Cardinality({k \in 1..Len(announcements) : announcements[k] = a})

\* the titles of the stored sessions
TitlesIn(dicts) == {dicts[k].film_title : k \in 1..Len(dicts)}

MeetingOn(s) ==
    [text |-> "meeting_on", weekday |-> (events[s.id].start_time \div TicksPerDay) % 7,
     title |-> s.title]

Tonight(s) == [text |-> "tonight", title |-> s.title]

(***************************************************************************)
(* C1..C5: what a reminder pass does with one session.                     *)
(***************************************************************************)
\* C1: a session whose event is found, scheduled and at the venue, with one or
\* two days left and reminder_count >= 2, gets the two-day announcement, once,
\* and is written back with reminder_count 1, id and title as they were.
C1_TwoDayReminder ==
    [][\A d \in Domains :
        /\ EvalStep(d) =>
              \A i \in 1..Len(pass[d].sessions) :
                LET s == pass[d].sessions[i] IN
                (/\ AtVenue(d, s)
                 /\ WholeDaysLeft(s, 1) \/ WholeDaysLeft(s, 2)
                 /\ s.reminder_count >= 2)
                => pass'[d].tasks[i] = <<Session(s.id, s.title, 1), MeetingOn(s)>>
        /\ WriteStep(d) =>
              \A i \in 1..Len(pass[d].tasks) :
                LET s == pass[d].sessions[i]
                    t == pass[d].tasks[i] IN
                (t[1] = Session(s.id, s.title, 1) /\ t[2] # None /\ t[2].text = "meeting_on")
                => /\ Kept(pass[d].tasks, i) \in 1..Len(store'[d])
                   /\ store'[d][Kept(pass[d].tasks, i)] =
                        [id |-> s.id, film_title |-> s.title, reminder_count |-> 1]
                   /\ Count(pass'[d].announcements, t[2]) = 1
      ]_vars

\* C1's case: a pass has just written a session back with reminder_count 1 and
\* holds its two-day announcement
C1_Witness ==
    \E d \in Domains :
        /\ pass[d].pc = "send"
        /\ \E k \in 1..Len(pass[d].announcements), j \in 1..Len(store[d]) :
              /\ pass[d].announcements[k].text = "meeting_on"
              /\ store[d][j].film_title = pass[d].announcements[k].title
              /\ store[d][j].reminder_count = 1

\* C2: a session whose event is found, scheduled and at the venue and starts
\* within the day gets the day-of announcement and is not in the rewritten
\* store, whatever its reminder_count.
C2_DayOfReminder ==
    [][\A d \in Domains :
        /\ EvalStep(d) =>
              \A i \in 1..Len(pass[d].sessions) :
                LET s == pass[d].sessions[i] IN
                (AtVenue(d, s) /\ WholeDaysLeft(s, 0))
                => pass'[d].tasks[i] = <<None, Tonight(s)>>
        /\ WriteStep(d) =>
              \A i \in 1..Len(pass[d].tasks) :
                LET s == pass[d].sessions[i]
                    t == pass[d].tasks[i] IN
                (t = <<None, Tonight(s)>>)
                => /\ \A k \in 1..Len(store'[d]) : store'[d][k].id # s.id
                   /\ Count(pass'[d].announcements, Tonight(s)) = 1
      ]_vars

\* C2's case: a pass holds a day-of announcement and has rewritten the store
\* without the session
C2_Witness ==
    \E d \in Domains :
        /\ pass[d].pc = "send"
        /\ \E k \in 1..Len(pass[d].announcements) :
              /\ pass[d].announcements[k].text = "tonight"
              /\ pass[d].announcements[k].title \notin TitlesIn(store[d])

\* C3: a session with more than two days left, or with one or two days left
\* and reminder_count 1, gets no announcement and is written back unchanged;
\* a pass all of whose sessions are so writes back what it read and ends
\* without a message.
C3_NothingDue ==
    [][\A d \in Domains :
        /\ EvalStep(d) =>
              \A i \in 1..Len(pass[d].sessions) :
                LET s == pass[d].sessions[i] IN
                (/\ AtVenue(d, s)
                 /\ \/ TimeLeft(s) >= 3 * TicksPerDay
                    \/ /\ WholeDaysLeft(s, 1) \/ WholeDaysLeft(s, 2)
                       /\ s.reminder_count = 1)
                => pass'[d].tasks[i] = <<s, None>>
        /\ WriteStep(d) =>
              /\ \A i \in 1..Len(pass[d].tasks) :
                    LET s == pass[d].sessions[i] IN
                    pass[d].tasks[i] = <<s, None>>
                    => /\ Kept(pass[d].tasks, i) \in 1..Len(store'[d])
                       /\ store'[d][Kept(pass[d].tasks, i)] =
                            [id |-> s.id, film_title |-> s.title,
                             reminder_count |-> s.reminder_count]
                       /\ \A k \in 1..Len(pass'[d].announcements) :
                             pass'[d].announcements[k].title # s.title
              /\ (\A i \in 1..Len(pass[d].tasks) :
                     pass[d].tasks[i] = <<pass[d].sessions[i], None>>)
                 => /\ Len(store'[d]) = Len(pass[d].sessions)
                    /\ pass'[d].announcements = <<>>
        /\ (EndStep(d) /\ pass[d].announcements = <<>>) => sent' = <<>>
      ]_vars

\* C3's case: a pass has written back, unchanged, a session already reminded
\* (reminder_count 1) whose event starts in one or two days, with nothing to
\* announce
C3_Witness ==
    \E d \in Domains :
        /\ pass[d].pc = "send"
        /\ pass[d].announcements = <<>>
        /\ \E j \in 1..Len(store[d]) :
              LET s == fromdict(store[d][j]) IN
              /\ s.reminder_count = 1
              /\ AtVenue(d, s)
              /\ WholeDaysLeft(s, 1) \/ WholeDaysLeft(s, 2)

\* C4: a session whose event is not found, or is not scheduled, or has started
\* already, gets no announcement and is not in the rewritten store.
C4_Retired ==
    [][\A d \in Domains :
        /\ EvalStep(d) =>
              \A i \in 1..Len(pass[d].sessions) :
                LET s == pass[d].sessions[i] IN
                (\/ ~Found(d, s)
                 \/ ~Scheduled(d, s)
                 \/ AtVenue(d, s) /\ TimeLeft(s) < 0)
                => pass'[d].tasks[i] = <<None, None>>
        /\ WriteStep(d) =>
              \A i \in 1..Len(pass[d].tasks) :
                LET s == pass[d].sessions[i] IN
                pass[d].tasks[i] = <<None, None>>
                => /\ \A k \in 1..Len(store'[d]) : store'[d][k].id # s.id
                   /\ \A k \in 1..Len(pass'[d].announcements) :
                         pass'[d].announcements[k].title # s.title
      ]_vars

\* C4's case: a pass has retired a session whose event started before the pass
C4_Witness ==
    \E d \in Domains :
        /\ pass[d].pc = "gather"
        /\ \E i \in 1..Len(pass[d].sessions) :
              /\ AtVenue(d, pass[d].sessions[i])
              /\ TimeLeft(pass[d].sessions[i]) < 0
              /\ pass[d].tasks[i] = <<None, None>>

\* C5: a session whose event is scheduled, but not at the domain's venue, is
\* kept unchanged and gets no announcement.
C5_OtherVenueKept ==
    [][\A d \in Domains :
        EvalStep(d) =>
          \A i \in 1..Len(pass[d].sessions) :
            LET s == pass[d].sessions[i] IN
            (Scheduled(d, s) /\ ~AtVenue(d, s))
            => pass'[d].tasks[i] = <<s, None>>
      ]_vars

(***************************************************************************)
(* C6..C8: the pass as a whole.                                            *)
(***************************************************************************)
\* C6: a pass goes read, evaluate, rewrite, send; it writes the store in one
\* step only, the one after all its tasks have run, and what it writes are the
\* sessions the tasks kept (as read, or counted down), in the order read.
C6_OneRewrite ==
    [][\A d \in Domains :
        /\ pass'[d].pc # pass[d].pc =>
              <<pass[d].pc, pass'[d].pc>> \in
                  {<<"idle", "eval">>, <<"eval", "gather">>,
                   <<"gather", "send">>, <<"send", "idle">>}
        /\ (pass'[d] # pass[d] /\ ~WriteStep(d)) => store'[d] = store[d]
        /\ EvalStep(d) =>
              /\ pass'[d].sessions = pass[d].sessions
              /\ Len(pass'[d].tasks) = Len(pass[d].sessions)
              /\ \A i \in 1..Len(pass[d].sessions) :
                    LET s == pass[d].sessions[i] IN
                    pass'[d].tasks[i][1] \in
                        {None, s, Session(s.id, s.title, 1)}
        /\ WriteStep(d) =>
              /\ Len(pass[d].tasks) = Len(pass[d].sessions)
              /\ Len(store'[d]) = Kept(pass[d].tasks, Len(pass[d].tasks))
              /\ \A i \in 1..Len(pass[d].tasks) :
                    LET t == pass[d].tasks[i][1] IN
                    t # None =>
                      store'[d][Kept(pass[d].tasks, i)] =
                        [id |-> t.id, film_title |-> t.title,
                         reminder_count |-> t.reminder_count]
      ]_vars

\* C6's case: a pass has rewritten a store of two sessions without the first
C6_Witness ==
    \E d \in Domains :
        /\ pass[d].pc = "send"
        /\ Len(store[d]) = 1
        /\ store[d][1].id = 2

\* C7: a day-of announcement a pass still has to send is of a session still in
\* the store: the announcement goes out before the session is dropped, so that
\* a failing send leaves no session removed and unannounced.
C7_AnnouncedBeforeDropped ==
    \A d \in Domains :
        pass[d].pc = "send" =>
          \A k \in 1..Len(pass[d].announcements) :
            pass[d].announcements[k].text = "tonight"
            => pass[d].announcements[k].title \in TitlesIn(store[d])

\* C8: a pass posts in its last step only, and then one message at most: none
\* for no announcement, a plain one for one, a bulleted one holding them all
\* for more, with the member role mentioned once.
C8_OneMessage ==
    [][\A d \in Domains :
        pass'[d] # pass[d] =>
          IF EndStep(d) /\ raised' = {} /\ pass[d].announcements # <<>>
          THEN sent' =
                 <<[to |-> announce_channel(d),
                    message |->
                      [kind |-> IF Len(pass[d].announcements) = 1
                                THEN "plain" ELSE "bulleted",
                       mentions |-> <<member_role(d)>>,
                       items |-> pass[d].announcements]]>>
          ELSE sent' = <<>>
      ]_vars

\* C8's case: a pass has just posted one bulleted message of two announcements
C8_Witness ==
    /\ Len(sent) = 1
    /\ sent[1].message.kind = "bulleted"
    /\ Len(sent[1].message.items) = 2
    /\ sent[1].message.items[1] # sent[1].message.items[2]

(***************************************************************************)
(* C9, C10: schedule_event.                                                *)
(***************************************************************************)
\* the call c takes a step
Moves(c) == CopiesIn(c, calls') < CopiesIn(c, calls)

\* C9: a schedule_event call whose event has been created posts the invitation
\* and then appends Session(id, title, 2) to the store, the sessions stored
\* before left as they were.
C9_CreatedIsStored ==
    [][\A c \in BagToSet(calls) :
        /\ (c.pc = "send" /\ Moves(c)) =>
              /\ sent' = <<[to |-> announce_channel(c.domain),
                            message |-> [kind |-> "invite",
                                         mentions |-> <<member_role(c.domain)>>,
                                         event |-> c.id, title |-> c.title]]>>
              /\ BagIn([c EXCEPT !.pc = "store"], calls')
        /\ (c.pc = "store" /\ Moves(c)) =>
              /\ store' = [store EXCEPT ![c.domain] =
                             Append(@, [id |-> c.id, film_title |-> c.title,
                                        reminder_count |-> 2])]
      ]_vars

\* C10: a schedule_event call whose event creation fails ends there: no event,
\* no message, no session, the store as it was, and no exception leaves it.
C10_CreateFailure ==
    [][\A c \in BagToSet(calls) :
        (c.pc = "create" /\ Moves(c) /\ events' = events) =>
          /\ calls' = calls (-) SetToBag({c})
          /\ store' = store
          /\ sent' = <<>>
          /\ raised' = {}
          /\ nextId' = nextId
      ]_vars

\* C10's case: some call has ended with its event creation failed: more calls
\* were made than events were created or are still to be created
C10_Witness ==
    asked > (nextId - 1) + Cardinality({c \in BagToSet(calls) : c.pc = "create"})
(***************************************************************************)
(* C11: the date schedule_event computes.                                  *)
(***************************************************************************)
\* the Monday-to-Sunday week a date lies in, counted from the week of day 0
WeekOf(date) == date \div 7

\* C11: on whatever weekday schedule_event runs, the event it asks for is on a
\* Wednesday, 10 to 16 days after today, in the week after next, at 22:00.
C11_WednesdayAfterNext ==
    \A c \in BagToSet(calls) :
        c.pc = "create" =>
          /\ weekday(DateOf(c.start_time)) = 2
          /\ DateOf(c.start_time) - Today \in 10..16
          /\ DateOf(c.start_time) - Today = 14 - (weekday(Today) - 2)
          /\ WeekOf(DateOf(c.start_time)) = WeekOf(Today) + 2
          /\ c.start_time = At22(DateOf(c.start_time))

\* C11's case: schedule_event was started on a Sunday, ten days before the event
C11_Witness ==
    \E c \in BagToSet(calls) :
        /\ c.pc = "create"
        /\ weekday(Today) = 6
        /\ DateOf(c.start_time) - Today = 10

(***************************************************************************)
(* C12: the intake of control messages.                                    *)
(***************************************************************************)
\* the step neither starts a fetch, nor creates an event, nor touches a store
NothingStarted ==
    /\ calls' = calls
    /\ events' = events
    /\ nextId' = nextId
    /\ store' = store

StartChanged(id) ==
    /\ events[id] # None
    /\ events'[id] # None
    /\ events'[id].start_time # events[id].start_time
    /\ events'[id].channel = events[id].channel
    /\ events[id].channel = event_channel(events[id].guild)

\* the stored dicts with the count of the session of that id set to 2
ResetIn(dicts, id) ==
    [i \in 1..Len(dicts) |->
       IF dicts[i].id = id THEN [dicts[i] EXCEPT !.reminder_count = 2] ELSE dicts[i]]

\* the handler u takes a step
Proceeds(u) == CopiesIn(u, updates') < CopiesIn(u, updates)

\* C13: when the start of an event at the Domain's venue changes and a Session
\* of that id is stored, one reschedule announcement is sent and the store
\* becomes what it was with that Session's count at 2, every other Session as
\* it was; when none is stored, nothing is announced and the store is not
\* written.
C13_RescheduleResets ==
    [][/\ \A id \in EventIds :
            StartChanged(id) =>
              LET d == events[id].guild IN
              IF id \in {store[d][i].id : i \in 1..Len(store[d])}
              THEN /\ store' = store
                   /\ \E u \in BagToSet(updates') :
                        /\ CopiesIn(u, updates') > CopiesIn(u, updates)
                        /\ u.pc = "send"
                        /\ u.domain = d
                        /\ u.sessions[u.index].id = id
              ELSE store' = store /\ updates' = updates /\ sent' = <<>>
       /\ \A u \in BagToSet(updates) :
            /\ (u.pc = "send" /\ Proceeds(u) /\ raised' = {}) =>
                  /\ Len(sent') = 1
                  /\ sent'[1].to = announce_channel(u.domain)
                  /\ sent'[1].message.kind = "rescheduled"
                  /\ sent'[1].message.title = u.sessions[u.index].title
                  /\ sent'[1].message.date = DateOf(u.start_time)
                  /\ store' = store
            /\ (u.pc = "write" /\ Proceeds(u)) =>
                  /\ sent' = <<>>
                  /\ u.sessions[u.index].id \in
                        {store[u.domain][i].id : i \in 1..Len(store[u.domain])}
                  /\ store' = [store EXCEPT ![u.domain] =
                                 ResetIn(@, u.sessions[u.index].id)]
      ]_vars

(***************************************************************************)
(* C14, C15: the winner of a ballot.                                       *)
(***************************************************************************)
\* the positions of the answers of poll that no answer outvotes
Leading(poll) ==
    {i \in 1..Len(poll.answers) :
        \A j \in 1..Len(poll.answers) :
            poll.answers[j].vote_count <= poll.answers[i].vote_count}

\* the URLs of the message have an answer of its poll each
Paired(message) ==
    /\ extract_urls_from_ballot(message.content) # <<>>
    /\ message.poll # None
    /\ Len(extract_urls_from_ballot(message.content)) = Len(message.poll.answers)

\* C14: of a ballot with n >= 1 embedded URLs and a poll of n answers,
\* get_winner returns the URL at position i and the text of answer i when
\* answer i alone has the most votes, and raises the tie error when two or more
\* answers share the most votes (all at zero included).
C14_UniqueMaximumWins ==
    \A id \in DOMAIN ballots :
        LET message == ballots[id]
            urls == extract_urls_from_ballot(message.content)
            result == get_winner(message.content, message.poll)
        IN  Paired(message) =>
              IF Cardinality(Leading(message.poll)) = 1
              THEN \A i \in Leading(message.poll) :
                      result = Returned(<<urls[i], message.poll.answers[i].text>>)
              ELSE /\ ~result.ok
                   /\ result.error.msg = "multiple winners"
                   /\ result.error.response
                        = "There is a tie. Please break the tie and try again."

\* C14's case: End Voting on a ballot of three films whose second answer alone
\* leads has told its title and asks for the page of the second URL
C14_Witness ==
    /\ Len(ballots[1].content) = 3
    /\ Paired(ballots[1])
    /\ Leading(ballots[1].poll) = {2}
    /\ ballots[1].content[1].url # ballots[1].content[2].url
    /\ sent = WinnerReply(Films[2])
    /\ \E c \in BagToSet(calls) : c.pc = "fetch" /\ c.url = ballots[1].content[2].url

\* C15: get_winner checks in a fixed order and returns no winner for an invalid
\* ballot: no embedded URL raises the no-URL error, with or without a poll;
\* otherwise no poll raises the no-poll error; otherwise a number of URLs that
\* is not the number of answers raises the count-mismatch error.
C15_ValidationOrder ==
    \A id \in DOMAIN ballots :
        LET message == ballots[id]
            urls == extract_urls_from_ballot(message.content)
            result == get_winner(message.content, message.poll)
        IN  /\ urls = <<>> =>
                 result = Raised(VotingError("no embedded URLs",
                                             "This is not a valid ballot."))
            /\ (urls # <<>> /\ message.poll = None) =>
                 result = Raised(VotingError("no poll",
                                             "This message does not contain a poll."))
            /\ (urls # <<>> /\ message.poll # None
                  /\ Len(urls) # Len(message.poll.answers)) =>
                 result = Raised(VotingError("count mismatch",
                                             "This is not a valid ballot."))
            /\ ~Paired(message) => ~result.ok

\* C15's case: End Voting on a message of three URLs and a poll of two answers
\* has been refused as not a valid ballot
C15_Witness ==
    /\ Len(extract_urls_from_ballot(ballots[1].content)) = 3
    /\ ballots[1].poll # None
    /\ Len(ballots[1].poll.answers) = 2
    /\ sent = Reply(Interaction, "This is not a valid ballot.")
    /\ calls = EmptyBag

(***************************************************************************)
(* C16, C17, C18: the loading of the domains.                              *)
(***************************************************************************)
\* every domain of the configuration loads on its own
EachLoads == \A i \in 1..Len(cfg) : load_domain(cfg[i].name, cfg[i].cfg).ok

\* the names of the configured domains bound to guild g
BoundTo(g) == {cfg[i].name : i \in {j \in 1..Len(cfg) : cfg[j].cfg.guild = g}}

\* C16: when two configured domains resolve to the same guild, the loading
\* fails, and its failure is the duplicate-domain error naming that guild and
\* the domains bound to it.
C16_DuplicateNamed ==
    [][\A g \in Guilds :
          (EachLoads /\ Cardinality(BoundTo(g)) > 1) =>
             /\ domains' = <<>>
             /\ \A failure \in raised' :
                   /\ failure[1] = "on_ready"
                   /\ failure[2].type = "RuntimeError"
                   /\ failure[2].what = "duplicate"
                   /\ \E i \in 1..Len(failure[2].guilds) :
                         /\ failure[2].guilds[i].guild = g
                         /\ failure[2].guilds[i].domains = BoundTo(g)
      ]_vars

\* the entity a binding of c names is of a guild other than c's
Foreign(c) ==
    \/ \E f \in Bindings \ {"guild", "member_role"} :
          /\ get_channel(c[f]) # None
          /\ get_channel(c[f]).guild # Guild(c.guild)
    \/ \E r \in Roles : r.id = c.member_role /\ r.guild # Guild(c.guild)

\* C17: the loading fails whenever a binding of a configured domain (control
\* channel, vote channel, announcement channel, venue or role) is of a guild
\* other than the domain's; no domain is registered then.
C17_ForeignRejected ==
    (\E i \in 1..Len(cfg) : Foreign(cfg[i].cfg)) => domains = <<>>

\* C18: if the loading of the configured domains fails, the registry holds no
\* Domain (resolve_domain returns None for every guild and every id), the
\* reminder timer is not created and no reminder pass runs.
C18_AllOrNothing ==
    ~load_domains(cfg).ok =>
        /\ domains = <<>>
        /\ \A g \in Guilds : resolve_domain(Guild(g)) = None
        /\ \A id \in Ids : resolve_domain(IntArg(id)) = None
        /\ reminder_timer = None
        /\ \A d \in Names : pass[d] = IdlePass

\* C18's case: on_ready has failed on the second of two domains, the first
\* being sound
C18_Witness ==
    /\ Len(cfg) = 2
    /\ load_domain(cfg[1].name, cfg[1].cfg).ok
    /\ ~load_domains(cfg).ok
    /\ raised = {<<"on_ready", load_domains(cfg).error>>}
    /\ domains = <<>>
    /\ reminder_timer = None

(***************************************************************************)
(* C19, C20: the commands of the vote channel.                             *)
(***************************************************************************)
\* the call c is new in this step
Begins(c) == CopiesIn(c, calls') > CopiesIn(c, calls)

\* C19: /ballot and End Voting used in the vote channel of a registered Domain
\* reach that Domain: the guild of the channel resolves to it, /ballot offers
\* the form, and
\* End Voting on a ballot with a single winner has that Domain's
\* schedule_event called for the winning URL.
C19_VoteChannelRouted ==
    [][\A g \in DOMAIN domains :
          LET domain == domains[g] IN
          /\ CreateBallot(domain.vote_channel) =>
                /\ resolve_domain(domain.vote_channel.guild) = domain
                /\ sent' = MovieForm
          /\ \A id \in DOMAIN ballots :
                (ballots[id].channel = domain.vote_channel /\ ClosePoll(id)) =>
                   \E c \in BagToSet(calls') :
                      /\ Begins(c)
                      /\ c.pc = "fetch_message"
                      /\ c.domain = domain.name
                      /\ c.message = id
          /\ \A c \in BagToSet(calls) :
                (c.pc = "fetch_message" /\ c.domain = domain.name /\ ClosePollFetched(c)
                   /\ get_winner(ballots[c.message].content, ballots[c.message].poll).ok) =>
                   \E n \in BagToSet(calls') :
                      /\ Begins(n)
                      /\ n.pc = "fetch"
                      /\ n.domain = domain.name
                      /\ n.url = get_winner(ballots[c.message].content,
                                            ballots[c.message].poll).value[1]
      ]_vars

\* C20: when End Voting fails with a voting error (no embedded URL, no poll,
\* count mismatch, tie), the user is told the error's response and nothing
\* else happens: the poll is not ended, no page is asked for, no event is
\* created and the store is as it was.
C20_VotingErrorOnlyReplies ==
    [][\A c \in BagToSet(calls) :
          LET message == ballots[c.message]
              result == get_winner(message.content, message.poll)
          IN  (c.pc = "fetch_message" /\ CopiesIn(c, calls') < CopiesIn(c, calls)
                 /\ raised' = {} /\ ~result.ok) =>
                /\ result.error.type = "VotingError"
                /\ sent' = Reply(Interaction, result.error.response)
                /\ ballots' = ballots
                /\ calls' = calls (-) SetToBag({c})
                /\ asked' = asked
                /\ events' = events
                /\ nextId' = nextId
                /\ store' = store
      ]_vars

\* C20's case: End Voting on a tied poll has been answered with the tie
\* response; the poll is open, nothing is in flight, no event exists
C20_Witness ==
    /\ sent = Reply(Interaction, "There is a tie. Please break the tie and try again.")
    /\ Paired(ballots[1])
    /\ Cardinality(Leading(ballots[1].poll)) > 1
    /\ ~ballots[1].poll.finalized
    /\ calls = EmptyBag
    /\ asked = 0
    /\ \A id \in EventIds : events[id] = None

(***************************************************************************)
(* C21, C22, C30: the reminder timer and the passes it starts.             *)
(***************************************************************************)
\* C21: the timer fires once a day: every firing is at 10:00, and after a
\* firing the next one is set 24 hours after it, at whatever hour the timer
\* was started.
C21_DailyAtTen ==
    [][\A i \in 1..Len(Executions) :
          /\ TimerWake(i) => now % TicksPerDay = 0
          /\ TimerRearm(i) =>
                reminder_timer'.executions[Len(reminder_timer'.executions)].due
                   = reminder_timer.executions[i].due + TicksPerDay
      ]_vars

\* the pass of Domain e is in flight, and is over after this step without a
\* step of its own
Abandoned(e) ==
    /\ pass[e] # IdlePass
    /\ pass'[e] = IdlePass
    /\ ~ /\ pass[e].pc = "send"
         /\ \/ pass[e].announcements = <<>>
            \/ sent' = Post(e, AnnounceMessage(e, pass[e].announcements))
            \/ <<"announce", e>> \in raised'

\* C22: the passes of one firing are independent: when the pass of one Domain
\* fails, the pass of every other Domain goes on, to the writing of its store
\* and the sending of its announcements.
C22_PassesIndependent ==
    [][\A e \in Names : ~Abandoned(e)]_vars

\* C30: there is one timer chain at most: on_ready, coming again, creates no
\* second Timer and starts no second execution, so that no more than one
\* execute() is in flight at any moment, and one firing starts one pass of a
\* Domain.
C30_OneTimerChain ==
    [][/\ Len(Executions') <= 1
       /\ reminder_timer # None =>
             /\ reminder_timer' # None
             /\ reminder_timer'.delay = reminder_timer.delay
             /\ OnReady => (reminder_timer' = reminder_timer /\ pass' = pass)
       /\ \A i \in 1..Len(Executions) :
             TimerWake(i) =>
                \A d \in Registered(domains) :
                    pass[d] = IdlePass /\ pass'[d].pc = "eval"
      ]_vars

\* C30's case: the one execution there is has woken, and its callback has
\* started one pass for each of the two Domains
C30_Witness ==
    /\ reminder_timer # None
    /\ Len(reminder_timer.executions) = 1
    /\ reminder_timer.executions[1].pc = "callback"
    /\ Registered(domains) = Names
    /\ \A d \in Names : pass[d].pc = "eval"

(***************************************************************************)
(* C23: the creation of a ballot.                                          *)
(***************************************************************************)
\* the call c is over after this step
Ends(c) == CopiesIn(c, calls') < CopiesIn(c, calls)

ReadAfter(d) == [i \in 1..Len(store'[d]) |-> fromdict(store'[d][i])]

\* the Sessions a pass has kept, in the order of its tasks
Survivors(d) ==
    LET kept == SelectSeq(pass[d].tasks, HasFirst)
    IN  [i \in 1..Len(kept) |-> First(kept[i])]

\* C24: the store gives back what was written: a list of Sessions written is
\* the list read afterwards (ids, titles, counts, order), whatever the store
\* held before; and writing what is read leaves the store as it is.
C24_StoreRoundTrip ==
    [][\A d \in Domains :
          /\ write_sessions(read_sessions(d)) = store[d]
          /\ PassWrite(d) => ReadAfter(d) = Survivors(d)
          /\ \A c \in BagToSet(calls) :
                (c.domain = d /\ SchedStore(c)) =>
                   ReadAfter(d) = read_sessions(d) \o <<Session(c.id, c.title, 2)>>
          /\ \A u \in BagToSet(updates) :
                (u.domain = d /\ UpdateWrite(u)) =>
                   ReadAfter(d) = Reset(u.sessions, u.index)
      ]_vars

\* C24's case: a pass has written the two Sessions it kept, of different
\* counts, and what is read is what it wrote
C24_Witness ==
    \E d \in Domains :
        /\ Len(store[d]) = 2
        /\ store[d][1].reminder_count # store[d][2].reminder_count
        /\ store[d][1].id # store[d][2].id
        /\ pass[d].pc = "send"

(***************************************************************************)
(* C25: the count of a Session.                                            *)
(***************************************************************************)
\* the count the Session of the given id has in a stored list, 0 if it has none
CountOf(dicts, id) ==
    IF \E i \in 1..Len(dicts) : dicts[i].id = id
    THEN dicts[CHOOSE i \in 1..Len(dicts) : dicts[i].id = id].reminder_count
    ELSE 0

IdsOf(dicts) == {dicts[i].id : i \in 1..Len(dicts)}

\* C26: a Session a reminder pass has left out of the store does not come back.
\* The ids of events are never used twice and, with one update handler in
\* flight, only a pass's write takes a Session out of the list the handler
\* has read; so the handler's write, at the end, puts no id into the store
\* that the store does not hold.
C26_GoneIsTerminal ==
    [][\A u \in BagToSet(updates) :
          UpdateWrite(u) => IdsOf(store'[u.domain]) \subseteq IdsOf(store[u.domain])
      ]_vars

\* C27: a writer of the store that read it before schedule_event appended a
\* Session does not erase that Session: the Sessions the store holds that a
\* reminder pass, or an update handler, did not read are in the store after
\* its write.
C27_AppendSurvives ==
    [][/\ \A d \in Domains :
             PassWrite(d) => IdsOf(store[d]) \ IdsOf(pass[d].sessions) \subseteq IdsOf(store'[d])
       /\ \A u \in BagToSet(updates) :
             UpdateWrite(u) => IdsOf(store[u.domain]) \ IdsOf(u.sessions) \subseteq IdsOf(store'[u.domain])
      ]_vars

(***************************************************************************)
(* Two schedule_event calls in flight at once: close_poll is a command     *)
(* handler, and the client runs each invocation as a task of its own, so a *)
(* second call may start while the first is suspended at line 243 or 249.  *)
(* Events are created or refused; the sends return.                        *)
(***************************************************************************)
MaxInFlight == 2

\* schedule_event entered while another call is suspended
SchedOverlap(d) ==
    /\ calls # EmptyBag
    /\ BagCardinality(calls) < MaxInFlight
    /\ asked < MaxEvents
    /\ asked' = asked + 1
    /\ calls' = calls (+) SetToBag({[pc |-> "create", domain |-> d,
                                     title |-> Films[asked + 1],
                                     start_time |-> ScheduleStart, id |-> 0]})
    /\ UNCHANGED <<now, events, nextId, store, pass, botVars>>
    /\ Quiet

PairNext ==
    \/ \E d \in Domains : SchedStart(d)
    \/ \E d \in Domains : SchedOverlap(d)
    \/ \E c \in BagToSet(calls) : SchedCreate(c)
    \/ \E c \in BagToSet(calls) : SchedCreateFail(c)
    \/ \E c \in BagToSet(calls) : SchedSend(c)
    \/ \E c \in BagToSet(calls) : SchedStore(c)
    \/ Tick

PairSpec == Init /\ [][PairNext]_vars

\* the places of an id in a stored list
PlacesOf(dicts, id) == {i \in 1..Len(dicts) : dicts[i].id = id}

UpdateEdit(id) ==
    /\ events[id] # None
    /\ Updated(id, events[id])

EditInit ==
    /\ now = 0
    /\ events \in {[id \in EventIds |-> [guild |-> "tsay", status |-> "scheduled",
                                         channel |-> event_channel("tsay"),
                                         start_time |-> At22(date[id])]] :
                     date \in [EventIds -> {1, 2}]}
    /\ nextId = MaxEvents + 1
    /\ store = [d \in Domains |-> [id \in EventIds |-> todict(Session(id, Films[id], 1))]]
    /\ sent = <<>>
    /\ pass = [d \in Domains |-> IdlePass]
    /\ calls = EmptyBag
    /\ asked = MaxEvents
    /\ raised = {}
    /\ cfg = <<>>
    /\ domains = LoadedDomains
    /\ reminder_timer = None
    /\ ballots = <<>>
    /\ updates = EmptyBag

EditNext ==
    \/ \E d \in Domains : PassStart(d)
    \/ \E d \in Domains : PassEval(d)
    \/ \E d \in Domains : PassWrite(d)
    \/ \E d \in Domains : PassSend(d)
    \/ \E id \in EventIds : UpdateEdit(id)
    \/ Tick

EditSpec == EditInit /\ [][EditNext]_vars

\* C29: the two-day reminder of a Session is announced once while the start
\* time of its event stays the same, whatever other updates of the event
\* arrive: where every Session has had its two-day reminder and no start
\* time changes, no reminder pass announces a two-day reminder.
C29_TwoDayOnce ==
    \A d \in Domains :
       \A i \in 1..Len(pass[d].tasks) :
          pass[d].tasks[i][2] = None \/ pass[d].tasks[i][2].text # "meeting_on"

\* the executions of the Timer that are at the given place
ExecutionsAt(executions, pc) == {i \in 1..Len(executions) : executions[i].pc = pc}

\* C31: the Timer is re-armed after every firing: when the announcement pass
\* of a firing ends, having returned or having raised in some Domain, an
\* execution is asleep until the next firing.
C31_AlwaysRearmed ==
    [][(/\ ExecutionsAt(Executions, "callback") # {}
        /\ ExecutionsAt(Executions', "callback") = {})
       => ExecutionsAt(Executions', "sleep") # {}
      ]_vars

\* C32: a Session whose event stays scheduled at the venue until its start
\* leaves the store by the day-of branch: while its event is scheduled, at the
\* venue and not yet started, a Session is taken out of the store only by the
\* write of a reminder pass that announces it day-of.
C32_GoneByDayOf ==
    [][\A d \in Domains :
          \A i \in 1..Len(store[d]) :
             (/\ store[d][i].id \notin IdsOf(store'[d])
              /\ AtVenue(d, fromdict(store[d][i]))
              /\ TimeLeft(fromdict(store[d][i])) >= 0)
             => /\ WriteStep(d)
                /\ \E k \in 1..Len(pass'[d].announcements) :
                      pass'[d].announcements[k] = Tonight(fromdict(store[d][i]))
      ]_vars

(***************************************************************************)
(* Two Domains side by side, each in its guild, each with its events.json  *)
(* under data_dir / name: events are scheduled, moved to another day under *)
(* the client's eyes, and reminded of, in both.                            *)
(***************************************************************************)
\* Domain.events_path, lines 201-203, below the data_dir of line 182
events_path(name) == <<"data_dir", name, "events.json">>

BothInit ==
    /\ now = 0
    /\ events = [id \in EventIds |-> None]
    /\ nextId = 1
    /\ store = [d \in Names |-> <<>>]
    /\ sent = <<>>
    /\ pass = [d \in Names |-> IdlePass]
    /\ calls = EmptyBag
    /\ asked = 0
    /\ raised = {}
    /\ cfg = <<>>
    /\ domains = [g \in Names |-> [name |-> g]]
    /\ reminder_timer = None
    /\ ballots = <<>>
    /\ updates = EmptyBag

BothNext ==
    \/ \E d \in Names : PassStart(d)
    \/ \E d \in Names : PassEval(d)
    \/ \E d \in Names : PassWrite(d)
    \/ \E d \in Names : PassSend(d)
    \/ \E d \in Names : SchedStart(d)
    \/ \E c \in BagToSet(calls) : SchedCreate(c)
    \/ \E c \in BagToSet(calls) : SchedSend(c)
    \/ \E c \in BagToSet(calls) : SchedStore(c)
    \/ \E id \in EventIds : UpdateReschedule(id, 0)
    \/ \E u \in BagToSet(updates) : UpdateSend(u)
    \/ \E u \in BagToSet(updates) : UpdateWrite(u)

BothSpec == BothInit /\ [][BothNext]_vars

\* the Domain whose operation the step is: the one of the pass, call or
\* handler that moves, or the one resolved from the guild of the updated event
ActsIn(d) ==
    \/ pass'[d] # pass[d]
    \/ \E c \in BagToSet(calls) \cup BagToSet(calls') :
          c.domain = d /\ CopiesIn(c, calls') # CopiesIn(c, calls)
    \/ \E u \in BagToSet(updates) \cup BagToSet(updates') :
          u.domain = d /\ CopiesIn(u, updates') # CopiesIn(u, updates)
    \/ \E id \in EventIds : events'[id] # events[id] /\ events'[id].guild = d

\* C33: the Domains have each their own file, and every step of schedule_event,
\* of a reminder pass or of the handling of an update changes the store of the
\* Domain it acts in only, and sends to the announcement channel of that
\* Domain only.
C33_OwnStoreOwnChannel ==
    [][/\ \A d, e \in Names : d # e => events_path(d) # events_path(e)
       /\ \A d \in Names :
             /\ store'[d] # store[d] => ActsIn(d)
             /\ \A k \in 1..Len(sent') : sent'[k].to = [text |-> d] => ActsIn(d)
       /\ \A k \in 1..Len(sent') : \E d \in Names : sent'[k].to = [text |-> d]
       /\ Cardinality({d \in Names : ActsIn(d)}) <= 1
      ]_vars

\* a message goes to the announcement channel of one Domain while the other
\* Domain has Sessions in its store
C33_Witness ==
    /\ sent # <<>>
    /\ sent[1].to = [text |-> "book"]
    /\ store["tsay"] # <<>>
    /\ store["book"] # <<>>
    /\ store["book"] # store["tsay"]
====
